---- MODULE Spec2Model ----
(***************************************************************************)
(* A model of the position-indexed signal comparison pipeline of modena /  *)
(* nodclust: the overlap search over sorted records (Fast5.overlap), the   *)
(* mutual pruning of the two datasets (_index_datasets), the position      *)
(* aggregator (_concat, _concat_range), the pair merger (concat_pairs) and *)
(* the window smoother (distsum, _distsum_at).                             *)
(*                                                                         *)
(* Python lists are 0-based; sequences here are 1-based, so the element at *)
(* Python index i is s[i + 1].  Indices kept in the state (i, j, lo, hi)   *)
(* are the Python ones.                                                    *)
(***************************************************************************)
EXTENDS Integers, Sequences, FiniteSets, TLC

VARIABLES
    pc,             \* where the run of compare_datasets / the driver stands
    dataset1,       \* records Fast5.from_path yields for the first dataset
    dataset2,       \* records Fast5.from_path yields for the second dataset
    min_coverage,   \* config.min_coverage
    from_position,  \* config.from_position (None when not configured)
    to_position,    \* config.to_position (None when not configured)
    xs,             \* list xs of compare_datasets (mutated by _concat)
    ys,             \* list ys of compare_datasets (mutated by _concat)
    xs0,            \* the list xs as it was handed to concat_pairs / _concat
    ys0,            \* the list ys as it was handed to concat_pairs
    gx,             \* frame of the generator _concat(xs, ...)
    gy,             \* frame of the generator _concat(ys, ...)
    x,              \* local x of concat_pairs: a Signal or None
    y,              \* local y of concat_pairs: a Signal or None
    pairs,          \* the pairs concat_pairs has yielded so far
    signals,        \* the Signals one _concat generator has yielded so far
    rounds,         \* how many times the two-pass pruning has been applied
    prev,           \* the (xs, ys) the previous pruning returned
    ovSelf,         \* receiver of the last Fast5.overlap call
    ovFasts,        \* argument of the last Fast5.overlap call
    ovRet,          \* what that call returned
    ovCalled,       \* whether overlap has been called
    stats,          \* the upstream iterator of distsum: tuples not yet pulled
    stats0,         \* the whole upstream stream of distsum
    window,         \* the deque of distsum
    di,             \* loop variable i of the prefix / suffix loops of distsum
    out,            \* tuples distsum has yielded so far
    disk,           \* path -> what the FAST5 file at that path holds
    cache,          \* path -> the cached properties of the Fast5 of that path
    reads,          \* path -> how many times the raw signal of the file was read
    queried,        \* the calls (path, i) of signal_at made so far
    rng,            \* state of the global generator np.random
    resample,       \* config.resample_size
    xdata,          \* the values of x.data
    ydata,          \* the values of y.data
    raised,         \* the exception that ended the run ("" when none)
    no_distance_sum,\* config.no_distance_sum
    random_seed,    \* config.random_seed
    output_bed,     \* the file at config.output_bed (None when there is none)
    output_annotated, \* the file at output_bed + ".cluster-in-progress"
    kmeans,         \* the (scores, labels) kmeans1d.cluster has mapped so far
    first,          \* how an earlier run over the same input ended
    idx_x,          \* the index idx_x of modena: position -> its squiggles
    idx_y,          \* the index idx_y of modena: position -> its squiggles
    position,       \* loop variable pos of compare_position_pairs
    max_pos,        \* argument max_pos of compare_position_pairs
    config          \* the acid, strand and chromosome filters of Config

vars == <<pc, dataset1, dataset2, min_coverage, from_position, to_position,
          xs, ys, xs0, ys0, gx, gy, x, y, pairs, signals, rounds, prev,
          ovSelf, ovFasts, ovRet, ovCalled, stats, stats0, window, di, out,
          disk, cache, reads, queried, rng, resample, xdata, ydata, raised,
          no_distance_sum, random_seed, output_bed, output_annotated, kmeans, first,
          idx_x, idx_y, position, max_pos, config>>

pipeVars == <<dataset1, dataset2, min_coverage, from_position, to_position,
              xs, ys, xs0, ys0, gx, gy, x, y, pairs, signals, rounds, prev>>
ovVars == <<ovSelf, ovFasts, ovRet, ovCalled>>
sumVars == <<stats, stats0, window, di, out>>
payVars == <<disk, cache, reads, queried, rng, resample, xdata, ydata, raised>>
outVars == <<no_distance_sum, random_seed, output_bed, output_annotated, kmeans, first>>
indexVars == <<idx_x, idx_y, position, max_pos>>

(***************************************************************************)
(* Bounds of the model.                                                    *)
(***************************************************************************)
MaxPos == 3         \* overlap, _concat: positions 0 .. MaxPos - 1
MaxFasts == 3       \* longest target list of an overlap call / _concat input
MaxDataPos == 2     \* datasets: positions 0 .. MaxDataPos - 1
MaxXs == 2          \* most records in the first dataset
MaxYs == 2          \* most records in the second dataset
MaxStreamPos == 5   \* concat_pairs: positions 0 .. MaxStreamPos - 1
MaxCoverage == 2    \* largest min_coverage tried
MaxStats == 6       \* longest upstream stream of the smoother
MaxStatPos == 5     \* largest position in an upstream stream
MaxValue == 2       \* largest statistic value in an upstream stream

WINDOW_SIZE == 5

\* Python's None.
None == [none |-> TRUE]

Max(a, b) == IF a >= b THEN a ELSE b
Abs(a) == IF a >= 0 THEN a ELSE -a

(***************************************************************************)
(* Records: a Fast5 is its path (identity), start and end; the interval is *)
(* half-open and start < end (the parser asserts a non-empty event table). *)
(***************************************************************************)
Intervals(n) == {iv \in (0 .. n - 1) \X (1 .. n) : iv[1] < iv[2]}

Fast5(path, start, end) == [path |-> path, start |-> start, end |-> end]

\* The list of records with the intervals iv, the k-th one with path base + k.
RecList(iv, base) == [k \in 1 .. Len(iv) |-> Fast5(base + k, iv[k][1], iv[k][2])]

\* l is a list of at most n records with positions below m.
IsRecList(l, n, m, base) ==
    \E len \in 0 .. n : \E iv \in [1 .. len -> Intervals(m)] : l = RecList(iv, base)

\* Python compares the key tuples (a, b) lexicographically.
TupleLess(p, q) == p[1] < q[1] \/ (p[1] = q[1] /\ p[2] < q[2])

KeyStartNegEnd(f) == <<f.start, -f.end>>
KeyStartEnd(f) == <<f.start, f.end>>

\* list.sort / sorted are stable: an element goes after every element of the
\* sorted prefix whose key is not greater than its own.  keys[n] is the key of
\* the n-th element; the prefix is kept as a list of indices.
InsertByKey(acc, n, keys) ==
    LET c == Cardinality({m \in 1 .. Len(acc) : ~TupleLess(keys[n], keys[acc[m]])})
    IN  SubSeq(acc, 1, c) \o <<n>> \o SubSeq(acc, c + 1, Len(acc))

SortedByKey(s, keys) ==
    LET F[n \in 0 .. Len(s)] ==
            IF n = 0 THEN <<>> ELSE InsertByKey(F[n - 1], n, keys)
    IN  [k \in 1 .. Len(s) |-> s[F[Len(s)][k]]]

sorted_start_negend(s) == SortedByKey(s, [k \in 1 .. Len(s) |-> KeyStartNegEnd(s[k])])
sort_start_end(s) == SortedByKey(s, [k \in 1 .. Len(s) |-> KeyStartEnd(s[k])])

(***************************************************************************)
(* Fast5.overlap.                                                          *)
(***************************************************************************)
\* bisect.bisect_left(a, key): binary search for the leftmost insertion point.
RECURSIVE bisect_left_loop(_, _, _, _)
bisect_left_loop(a, key, lo, hi) ==
    IF lo < hi
    THEN LET mid == (lo + hi) \div 2
         IN  IF TupleLess(a[mid + 1], key)
             THEN bisect_left_loop(a, key, mid + 1, hi)
             ELSE bisect_left_loop(a, key, lo, mid)
    ELSE lo

bisect_left(a, key) == bisect_left_loop(a, key, 0, Len(a))

\* The scan of overlap started at the insertion point itself.
overlap_from_insertion(j) == j

\* The index the scan of overlap starts at.
overlap_from(j) == Max(j - 1, 0)

\* As overlap_test, with touching intervals taken as overlapping.
overlap_test_closed(self, f) == self.start <= f.end /\ f.start <= self.end

\* The test that makes overlap return f.
overlap_test(self, f) == self.start < f.end /\ f.start < self.end

\* The for loop of overlap, from Python index i on.
RECURSIVE overlap_scan(_, _, _)
overlap_scan(self, fasts, i) ==
    IF i >= Len(fasts) THEN None
    ELSE LET f == fasts[i + 1]
         IN  IF f.start >= self.end THEN None
             ELSE IF overlap_test(self, f) THEN f
             ELSE overlap_scan(self, fasts, i + 1)

overlap(self, fasts) ==
    LET j == bisect_left([k \in 1 .. Len(fasts) |-> KeyStartNegEnd(fasts[k])],
                         KeyStartNegEnd(self))
    IN  overlap_scan(self, fasts, overlap_from(j))

\* Python truthiness of the Optional[Fast5] that overlap returns.
Truthy(r) == r # None

(***************************************************************************)
(* _index_datasets: the two-pass mutual pruning.                           *)
(***************************************************************************)
\* As from_path, with the files taken in the order rglob lists them.
from_path_unsorted(listing) == listing

\* Fast5._from_path: the files under the path in the order of their paths,
\* whatever the order rglob lists them in.
from_path(listing) ==
    SortedByKey(listing, [k \in 1 .. Len(listing) |-> <<listing[k].path, 0>>])

\* [y for y in items if y.overlap(targets)]
keep_overlapping(items, targets) ==
    SelectSeq(items, LAMBDA f : Truthy(overlap(f, targets)))

\* As index_datasets, without the ys.sort before the second pass.
index_datasets_unsorted(X, Y) ==
    LET xs1 == sorted_start_negend(X)
        ys1 == keep_overlapping(Y, xs1)
        xs2 == keep_overlapping(xs1, ys1)
    IN  IF xs1 = <<>> THEN [exit |-> TRUE, xs |-> <<>>, ys |-> <<>>]
        ELSE IF ys1 = <<>> THEN [exit |-> TRUE, xs |-> xs1, ys |-> <<>>]
        ELSE [exit |-> FALSE, xs |-> xs2, ys |-> ys1]

\* The result of _index_datasets: exit is TRUE when it ends in sys.exit(1).
index_datasets(X, Y) ==
    LET xs1 == sorted_start_negend(X)
        ys1 == keep_overlapping(Y, xs1)
        ys2 == sorted_start_negend(ys1)
        xs2 == keep_overlapping(xs1, ys2)
    IN  IF xs1 = <<>> THEN [exit |-> TRUE, xs |-> <<>>, ys |-> <<>>]
        ELSE IF ys1 = <<>> THEN [exit |-> TRUE, xs |-> xs1, ys |-> <<>>]
        ELSE [exit |-> FALSE, xs |-> xs2, ys |-> ys2]

\* index_datasets of signals.run: the same two passes, without an exit.
signals_index_datasets(X, Y) ==
    LET xs1 == sorted_start_negend(X)
        ys1 == keep_overlapping(Y, xs1)
        ys2 == sorted_start_negend(ys1)
        xs2 == keep_overlapping(xs1, ys2)
    IN  [xs |-> xs2, ys |-> ys2]

(***************************************************************************)
(* The payload of a record: the properties Fast5.signal and                *)
(* Fast5.positions (functools.cached_property) and Fast5.signal_at.        *)
(* disk[path] is what the file holds: mapped_start, the column length of   *)
(* Events, the dataset Signal of Raw/Reads (raw_reads is FALSE when the    *)
(* file has no such group), and the attributes read_start_rel_to_raw,      *)
(* shift, scale and rna.                                                   *)
(***************************************************************************)
Min(a, b) == IF a <= b THEN a ELSE b

\* The element of a set of one element: The({e(v) : v \in {d}}) is e(d), with
\* d worked out once.
The(S) == CHOOSE e \in S : TRUE

\* a[lo:hi] of Python, for 0 <= lo.
Slice(a, lo, hi) == SubSeq(a, lo + 1, Min(hi, Len(a)))

\* np.flip
Reverse(s) == [k \in 1 .. Len(s) |-> s[Len(s) + 1 - k]]

\* The body of Fast5.signal: (signal, lengths) as read from the file.
read_signal(file) ==
    LET sgn == IF file.rna THEN Reverse(file.Signal) ELSE file.Signal
        cut == Slice(sgn, file.read_start_rel_to_raw, Len(sgn))
    IN  [signal |-> [k \in 1 .. Len(cut) |-> (cut[k] - file.shift) \div file.scale],
         lengths |-> file.length]

\* As positions_loop, with the length appended in place of the running sum.
RECURSIVE positions_loop_lengths(_, _, _)
positions_loop_lengths(ps, lengths, i) ==
    IF i >= Len(lengths) THEN ps
    ELSE positions_loop_lengths(Append(ps, lengths[i + 1]), lengths, i + 1)

\* The loop of Fast5.positions: ps.append(ps[-1] + lengths[i])
RECURSIVE positions_loop(_, _, _)
positions_loop(ps, lengths, i) ==
    IF i >= Len(lengths) THEN ps
    ELSE positions_loop(Append(ps, ps[Len(ps)] + lengths[i + 1]), lengths, i + 1)

\* The body of Fast5.positions.
positions(lengths) == positions_loop(<<0>>, lengths, 0)

\* The __dict__ of a Fast5 none of whose cached properties has been used.
NotCached == [signal |-> None, positions |-> None]

\* What a sequence of calls has done so far: the caches, the reads, the
\* generator np.random, the exception raised ("" when none), the value the
\* last call returned and the values all calls returned.
Effects(c, r, g) ==
    [cache |-> c, reads |-> r, rng |-> g, raised |-> "", ret |-> <<>>, rets |-> <<>>]

\* As Fast5_signal, without the cache.
Fast5_signal_uncached(path, st) ==
    IF ~disk[path].raw_reads THEN [st EXCEPT !.raised = "AttributeError"]
    ELSE [st EXCEPT !.cache[path].signal = read_signal(disk[path]),
                    !.reads[path] = @ + 1]

\* self.signal: the cached value, or the file is read and the value cached.
\* rds.keys() raises AttributeError when the file has no Raw/Reads.
Fast5_signal(path, st) ==
    IF st.cache[path].signal # None THEN st
    ELSE IF ~disk[path].raw_reads THEN [st EXCEPT !.raised = "AttributeError"]
    ELSE [st EXCEPT !.cache[path].signal = read_signal(disk[path]),
                    !.reads[path] = @ + 1]

\* self.positions: the cached value, or it is computed from self.signal.
Fast5_positions(path, st) ==
    IF st.cache[path].positions # None THEN st
    ELSE The({IF s1.raised # "" THEN s1
              ELSE [s1 EXCEPT !.cache[path].positions =
                                [ps |-> positions(s1.cache[path].signal.lengths)]] :
              s1 \in {Fast5_signal(path, st)}})

\* np.random.seed(seed): the state the seed puts the generator in.
np_random_seed(seed) == seed % 16

\* One step of the generator np.random.
rng_next(g) == (5 * g + 3) % 16

\* As choice, with one value drawn whatever the size.
choice_one(a, n, g) ==
    LET g1 == rng_next(g)
    IN  [out |-> <<a[((g1 \div 2) % Len(a)) + 1]>>, rng |-> g1]

\* np.random.choice(a, size = n, replace = True) for a non-empty a.
RECURSIVE choice(_, _, _)
choice(a, n, g) ==
    IF n = 0 THEN [out |-> <<>>, rng |-> g]
    ELSE LET g1 == rng_next(g)
             r == choice(a, n - 1, g1)
         IN  [out |-> <<a[((g1 \div 2) % Len(a)) + 1]>> \o r.out, rng |-> r.rng]

\* f.signal_at(i, n) on the Fast5 f of the file at path, for i >= f.start:
\* lengths[i - start] raises IndexError from f.end on, and np.random.choice
\* raises ValueError on an empty fragment.
Fast5_signal_at(path, i, n, st) ==
    The({IF s1.raised # "" THEN s1
         ELSE The({
            LET sl == s2.cache[path].signal
                ps == s2.cache[path].positions.ps
                k == i - disk[path].mapped_start
                frag == Slice(sl.signal, ps[k + 1], ps[k + 1] + sl.lengths[k + 1])
            IN  IF k >= Len(sl.lengths) THEN [s2 EXCEPT !.raised = "IndexError"]
                ELSE IF n > 0
                THEN IF frag = <<>> THEN [s2 EXCEPT !.raised = "ValueError"]
                     ELSE The({[s2 EXCEPT !.ret = c.out, !.rng = c.rng] :
                               c \in {choice(frag, n, s2.rng)}})
                ELSE [s2 EXCEPT !.ret = frag] :
            s2 \in {Fast5_positions(path, s1)}}) :
         s1 \in {Fast5_signal(path, st)}})

\* Whether f.signal_at(i, n) raises: it does so on the first access of a
\* file without Raw/Reads and on an empty fragment that is to be resampled.
signal_at_raises(path, i, n) ==
    Fast5_signal_at(path, i, n,
                    Effects([q \in DOMAIN disk |-> NotCached],
                            [q \in DOMAIN disk |-> 0], 0)).raised # ""

\* The calls f.signal_at(i, n) of a list of (path, i), in order, up to the
\* first that raises.
RECURSIVE signal_at_calls(_, _, _)
signal_at_calls(calls, n, st) ==
    IF calls = <<>> \/ st.raised # "" THEN st
    ELSE The({signal_at_calls(Tail(calls), n, s2) :
              s2 \in {[s1 EXCEPT !.rets = Append(s1.rets, s1.ret)] :
                      s1 \in {Fast5_signal_at(Head(calls)[1], Head(calls)[2], n, st)}}})

(***************************************************************************)
(* The position aggregator: _concat and _concat_range.                     *)
(***************************************************************************)
\* Optional[int] of the configuration: None is NoPosition.
NoPosition == -1

\* The call f.signal_at(i, resample) of _concat_range, stood for by the
\* record and the position: a sample is first the list of the calls that make
\* it; what the calls return is worked out by signal_at_calls.
signal_at(f, i) == <<<<f.path, i>>>>

RECURSIVE Flatten(_)
Flatten(ss) == IF ss = <<>> THEN <<>> ELSE Head(ss) \o Flatten(Tail(ss))

\* As concat_signal, with the start of a record counted as outside it.
concat_signal_open(fasts, i) ==
    LET fs == SelectSeq(fasts, LAMBDA f : f.start < i /\ i < f.end)
    IN  [position |-> i,
         coverage |-> Len(fs),
         data |-> Flatten([k \in 1 .. Len(fs) |-> signal_at(fs[k], i)])]

\* Body of the loop of _concat_range for position i, up to the coverage test.
concat_signal(fasts, i) ==
    LET fs == SelectSeq(fasts, LAMBDA f : f.start <= i /\ i < f.end)
    IN  [position |-> i,
         coverage |-> Len(fs),
         data |-> Flatten([k \in 1 .. Len(fs) |-> signal_at(fs[k], i)])]

\* The `continue` test of _concat_range.
out_of_range(i, fp, tp) ==
    \/ (fp # NoPosition /\ fp - 5 > i + 1)
    \/ (tp # NoPosition /\ i + 1 > tp + 5)

\* while j < len(fasts) and fasts[j].start < f.end: j += 1
RECURSIVE concat_block_end(_, _, _)
concat_block_end(fasts, j, end) ==
    IF j < Len(fasts) /\ fasts[j + 1].start < end
    THEN concat_block_end(fasts, j + 1, end)
    ELSE j

\* As concat_start, with the cursor reset to the start of each record.
concat_start_reset(start, f) == f.start

\* start = max(start, f.start): the cursor never moves back.
concat_start(start, f) == Max(start, f.start)

\* As concat_gate, with a block of exactly min_coverage records skipped.
concat_gate_strict(size, mc) == size > mc

\* The gate on the size of the block fasts[i:j].
concat_gate(size, mc) == size >= mc

\* The frame of a generator _concat(fasts, ...) that has not run yet.
concat_new(fasts) ==
    [state |-> "new", fasts |-> fasts, i |-> 0, start |-> 0,
     overlap |-> <<>>, p |-> 0, end |-> 0, calls |-> <<>>]

\* As concat_release, with the slot left as it is.
concat_release_keep(g) ==
    [g EXCEPT !.start = Max(g.start, g.fasts[g.i + 1].end),
              !.i = g.i + 1,
              !.state = "loop"]

\* The end of one iteration of the loop of _concat: the cursor moves to the
\* end of the record and its slot is cleared.
concat_release(g) ==
    [g EXCEPT !.start = Max(g.start, g.fasts[g.i + 1].end),
              !.fasts[g.i + 1] = None,
              !.i = g.i + 1,
              !.state = "loop"]

\* next(g, None): run the generator from where it is suspended to its next
\* yield (ret is the Signal), to its end (ret is None) or to the call of
\* signal_at that raises (state "raised").  calls collects the calls made.
RECURSIVE concat_next(_, _, _, _, _)
concat_next(g, mc, n, fp, tp) ==
    CASE g.state = "new" ->
            concat_next([g EXCEPT !.fasts = sort_start_end(g.fasts),
                                  !.start = 0, !.i = 0, !.state = "loop"],
                        mc, n, fp, tp)
      [] g.state = "loop" ->
            IF g.i >= Len(g.fasts)
            THEN [g |-> [g EXCEPT !.state = "done"], ret |-> None]
            ELSE LET f == g.fasts[g.i + 1]
                     j == concat_block_end(g.fasts, g.i + 1, f.end)
                     start == concat_start(g.start, f)
                 IN  IF start < f.end /\ concat_gate(j - g.i, mc)
                     THEN concat_next([g EXCEPT !.state = "range",
                                                !.overlap = SubSeq(g.fasts, g.i + 1, j),
                                                !.start = start,
                                                !.p = start,
                                                !.end = f.end],
                                      mc, n, fp, tp)
                     ELSE concat_next(concat_release([g EXCEPT !.start = start]),
                                      mc, n, fp, tp)
      [] g.state = "range" ->
            IF g.p >= g.end
            THEN concat_next(concat_release(g), mc, n, fp, tp)
            ELSE IF out_of_range(g.p, fp, tp)
            THEN concat_next([g EXCEPT !.p = g.p + 1], mc, n, fp, tp)
            ELSE LET signal == concat_signal(g.overlap, g.p)
                     h == [g EXCEPT !.calls = @ \o signal.data]
                 IN  IF \E k \in 1 .. Len(signal.data) :
                            signal_at_raises(signal.data[k][1], signal.data[k][2], n)
                     THEN [g |-> [h EXCEPT !.state = "raised"], ret |-> None]
                     ELSE IF signal.coverage >= mc
                     THEN [g |-> [h EXCEPT !.p = g.p + 1], ret |-> signal]
                     ELSE concat_next([h EXCEPT !.p = g.p + 1], mc, n, fp, tp)
      [] g.state \in {"done", "raised"} -> [g |-> g, ret |-> None]

RECURSIVE SumOf(_)
SumOf(ls) == IF ls = <<>> THEN 0 ELSE Head(ls) + SumOf(Tail(ls))

\* The files of a list of records: every position has one or two values,
\* the values differ from file to file and from position to position, and
\* the files of the paths in bad have no Raw/Reads.
FileOf(f, bad) ==
    [mapped_start |-> f.start,
     length |-> [k \in 1 .. f.end - f.start |-> 1 + ((f.path + k) % 2)],
     raw_reads |-> f.path \notin bad,
     Signal |-> [j \in 1 .. (f.path % 2) + 2 * (f.end - f.start) |->
                    1 + 2 * ((7 * f.path + 3 * j) % 10)],
     read_start_rel_to_raw |-> f.path % 2,
     shift |-> 1,
     scale |-> 2,
     rna |-> FALSE]

DiskOf(fasts, bad) ==
    [q \in {fasts[k].path : k \in 1 .. Len(fasts)} |->
        FileOf(fasts[CHOOSE k \in 1 .. Len(fasts) : fasts[k].path = q], bad)]

\* next(g, None) with what its calls of signal_at do: the frame, the Signal
\* or None, the values of its data, the calls made (the one that raises is
\* the last) and the effects.
Pull(g, st) ==
    The({The({[g |-> r.g,
               ret |-> r.ret,
               data |-> IF r.ret = None THEN <<>>
                        ELSE Flatten(SubSeq(e.rets, Len(e.rets) - r.ret.coverage + 1,
                                            Len(e.rets))),
               made |-> SubSeq(r.g.calls, 1, Min(Len(e.rets) + 1, Len(r.g.calls))),
               st |-> e] :
              e \in {signal_at_calls(r.g.calls, resample,
                                     [st EXCEPT !.rets = <<>>])}}) :
         r \in {concat_next([g EXCEPT !.calls = <<>>],
                            min_coverage, resample, from_position, to_position)}})

\* A generator that is not pulled.
NoPull(g, v, data, st) ==
    [g |-> g, ret |-> v, data |-> data, made |-> <<>>, st |-> st]

(***************************************************************************)
(* The pair merger: the loop of concat_pairs.                              *)
(***************************************************************************)
\* As concat_pairs_branch, with the stream that is ahead advanced.
concat_pairs_branch_swapped(sx, sy) ==
    IF sx = None \/ sy = None THEN "break"
    ELSE IF sx.position > sy.position THEN "next_x"
    ELSE IF sy.position > sx.position THEN "next_y"
    ELSE "yield"

\* As concat_pairs_branch, with the other stream drained when one has ended.
concat_pairs_branch_drain(sx, sy) ==
    IF sx = None /\ sy = None THEN "break"
    ELSE IF sx = None THEN "next_y"
    ELSE IF sy = None THEN "next_x"
    ELSE IF sx.position > sy.position THEN "next_y"
    ELSE IF sy.position > sx.position THEN "next_x"
    ELSE "yield"

\* What one iteration of the loop of concat_pairs does with x and y.
concat_pairs_branch(sx, sy) ==
    IF sx = None \/ sy = None THEN "break"
    ELSE IF sx.position > sy.position THEN "next_y"
    ELSE IF sy.position > sx.position THEN "next_x"
    ELSE "yield"

(***************************************************************************)
(* The window smoother: distsum and _distsum_at.                           *)
(***************************************************************************)
\* deque(maxlen = WINDOW_SIZE).append
deque_append(w, e) ==
    IF Len(w) = WINDOW_SIZE THEN Append(Tail(w), e) ELSE Append(w, e)

\* assert 0 <= i < len(window)
distsum_assert(w, i) == 0 <= i /\ i < Len(w)

\* As distsum_near, with every tuple of the index window taken as near.
distsum_near_any(wi, wj, span) == TRUE

\* The test of _distsum_at on the positions of window[i] and window[j].
distsum_near(wi, wj, span) == Abs(wi[1] - wj[1]) <= span

\* The tuple _distsum_at(window, i) yields (when its assertion holds).
distsum_at(w, i) ==
    LET span == WINDOW_SIZE \div 2
        S[j \in i - span - 1 .. i + span] ==
            IF j = i - span - 1 THEN 0
            ELSE S[j - 1] +
                 (IF 0 <= j /\ j < Len(w) /\ distsum_near(w[i + 1], w[j + 1], span)
                  THEN w[j + 1][2] ELSE 0)
    IN  <<w[i + 1][1], S[i + span]>>

\* The tuples _distsum_at yields for i in range(i, hi), up to the first
\* failure of its assertion.
RECURSIVE distsum_range(_, _, _)
distsum_range(w, i, hi) ==
    IF i >= hi THEN [yields |-> <<>>, raised |-> ""]
    ELSE IF ~distsum_assert(w, i) THEN [yields |-> <<>>, raised |-> "AssertionError"]
    ELSE LET r == distsum_range(w, i + 1, hi)
         IN  [yields |-> <<distsum_at(w, i)>> \o r.yields, raised |-> r.raised]

\* distsum when the stat numbered cnt (from 0) comes out of its stream: the
\* window is populated up to WINDOW_SIZE, the prefix follows the last stat
\* of the population, and every later stat yields the middle of the window
\* before it enters.
distsum_pulled(w, cnt, stat) ==
    IF cnt < WINDOW_SIZE
    THEN LET w1 == deque_append(w, stat)
         IN  [window |-> w1,
              yields |-> IF cnt + 1 = WINDOW_SIZE
                         THEN distsum_range(w1, 0, WINDOW_SIZE \div 2).yields
                         ELSE <<>>]
    ELSE [window |-> deque_append(Tail(w), stat),
          yields |-> <<distsum_at(w, WINDOW_SIZE \div 2)>>]

\* distsum of signals when its stream ends after cnt stats: the prefix when
\* the population was cut short, then the suffix.
signals_distsum_exhausted(w, cnt) ==
    IF cnt < WINDOW_SIZE
    THEN LET p == distsum_range(w, 0, WINDOW_SIZE \div 2)
             q == distsum_range(w, WINDOW_SIZE \div 2, WINDOW_SIZE)
         IN  IF p.raised # "" THEN p
             ELSE [yields |-> p.yields \o q.yields, raised |-> q.raised]
    ELSE distsum_range(w, WINDOW_SIZE \div 2, WINDOW_SIZE)

\* distsum of nodclust when its stream ends after cnt stats: nothing for an
\* empty window (if not window: return), else as in signals.
distsum_exhausted(w, cnt) ==
    IF w = <<>> THEN [yields |-> <<>>, raised |-> ""]
    ELSE signals_distsum_exhausted(w, cnt)

(***************************************************************************)
(* The statistic and the output file.  A float is a number of millionths;  *)
(* a line of the file is its columns 2, 3 and 12 (the others are the same  *)
(* on every line), the last one in hundred-thousandths.                    *)
(***************************************************************************)
\* np.ndarray.sort
RECURSIVE np_sort(_)
np_sort(a) ==
    IF a = <<>> THEN <<>>
    ELSE LET r == np_sort(Tail(a))
             c == Cardinality({k \in 1 .. Len(r) : r[k] < Head(a)})
         IN  SubSeq(r, 1, c) \o <<Head(a)>> \o SubSeq(r, c + 1, Len(r))

\* Round-half-even of num / den.
RoundDiv(num, den) ==
    LET q == num \div den
        r == num % den
    IN  IF 2 * r > den \/ (2 * r = den /\ q % 2 = 1) THEN q + 1 ELSE q

\* astropy.stats._stats.ks_2samp(a, b) on sorted samples, the Kuiper
\* statistic: the largest excess of the distribution of a over that of b
\* plus the largest excess of that of b over that of a.
ks_2samp(a, b) ==
    LET le(s, t) == Cardinality({k \in 1 .. Len(s) : s[k] <= t})
        diff(t) == le(a, t) * Len(b) - le(b, t) * Len(a)
        pts == {a[k] : k \in 1 .. Len(a)} \cup {b[k] : k \in 1 .. Len(b)}
        up == CHOOSE d \in {0} \cup {diff(t) : t \in pts} :
                  \A t \in pts : d >= diff(t) /\ d >= 0
        down == CHOOSE d \in {0} \cup {-diff(t) : t \in pts} :
                    \A t \in pts : d >= -diff(t) /\ d >= 0
    IN  RoundDiv((up + down) * 1000000, Len(a) * Len(b))

\* _kuiper(pair): both data are sorted, then compared.
kuiper(sx, dx, dy) == <<sx.position, ks_2samp(np_sort(dx), np_sort(dy))>>

\* As position_within_bounds, with None taken for a bound.
position_within_bounds_unguarded(pos, fp, tp) ==
    /\ ~(pos + 1 < fp)
    /\ ~(pos + 1 > tp)

\* position_within_bounds(pos, config), without a pattern.
position_within_bounds(pos, fp, tp) ==
    /\ ~(fp # NoPosition /\ pos + 1 < fp)
    /\ ~(tp # NoPosition /\ pos + 1 > tp)

\* _emit_line_bed_methyl: f"{dist:.5f}" rounds to five decimals.
emit_line_bed_methyl(pos, dist) == <<pos + 1, pos + 2, RoundDiv(dist, 10)>>

\* The lines the loop of compare_datasets writes for the tuples it gets.
RECURSIVE emit_lines(_, _, _)
emit_lines(yields, fp, tp) ==
    IF yields = <<>> THEN <<>>
    ELSE (IF position_within_bounds(Head(yields)[1], fp, tp)
          THEN <<emit_line_bed_methyl(Head(yields)[1], Head(yields)[2])>>
          ELSE <<>>) \o emit_lines(Tail(yields), fp, tp)

\* scores.index(max(scores))
index_of_max(scores) ==
    CHOOSE k \in 1 .. Len(scores) :
        /\ \A j \in 1 .. Len(scores) : scores[j] <= scores[k]
        /\ \A j \in 1 .. k - 1 : scores[j] < scores[k]

\* As label_lines, with the cluster id 1 taken as the positive one.
label_lines_one(lines, labels) ==
    [k \in 1 .. Len(lines) |->
        Append(lines[k], IF labels[k] = 1 THEN "pos" ELSE "neg")]

\* The lines _cluster_output writes for the labels kmeans1d gives.
label_lines(lines, labels) ==
    LET scores == [k \in 1 .. Len(lines) |-> lines[k][3]]
        pos_label == labels[index_of_max(scores)]
    IN  [k \in 1 .. Len(lines) |->
            Append(lines[k], IF labels[k] = pos_label THEN "pos" ELSE "neg")]

(***************************************************************************)
(* States in which a part of the program is not in use.                    *)
(***************************************************************************)
PipeIdle ==
    /\ dataset1 = <<>> /\ dataset2 = <<>>
    /\ min_coverage = 1
    /\ from_position = NoPosition /\ to_position = NoPosition
    /\ xs = <<>> /\ ys = <<>> /\ xs0 = <<>> /\ ys0 = <<>>
    /\ gx = concat_new(<<>>) /\ gy = concat_new(<<>>)
    /\ x = None /\ y = None
    /\ pairs = <<>> /\ signals = <<>>
    /\ rounds = 0 /\ prev = None

OvIdle == ovSelf = None /\ ovFasts = <<>> /\ ovRet = None /\ ovCalled = FALSE

SumIdle == stats = <<>> /\ stats0 = <<>> /\ window = <<>> /\ di = 0 /\ out = <<>>

PayIdle ==
    /\ disk = <<>> /\ cache = <<>> /\ reads = <<>> /\ queried = <<>>
    /\ rng = 0 /\ resample = 0
    /\ xdata = <<>> /\ ydata = <<>>
    /\ raised = ""

IndexIdle == idx_x = <<>> /\ idx_y = <<>> /\ position = 0 /\ max_pos = 0

OutIdle ==
    /\ no_distance_sum = TRUE /\ random_seed = 0
    /\ output_bed = None /\ output_annotated = None
    /\ kmeans = {} /\ first = None

\* The files of the records are on disk, no property of a record is cached
\* and np.random is in the state the seed puts it in.
PayInit(fasts, seed, bad) ==
    /\ disk = DiskOf(fasts, bad)
    /\ cache = [q \in DOMAIN disk |-> NotCached]
    /\ reads = [q \in DOMAIN disk |-> 0]
    /\ queried = <<>>
    /\ rng = np_random_seed(seed)
    /\ xdata = <<>> /\ ydata = <<>>
    /\ raised = ""

(***************************************************************************)
(* compare_datasets: _index_datasets, then concat_pairs over its result.   *)
(* dataset1 and dataset2 are the records that pass the filters of          *)
(* Fast5.from_path (one acid, chromosome and strand), as rglob lists them: *)
(* here in the order of their paths, which is any order of their           *)
(* intervals.                                                              *)
(***************************************************************************)
Init ==
    /\ pc = "index"
    /\ IsRecList(dataset1, MaxXs, MaxDataPos, 0)
    /\ IsRecList(dataset2, MaxYs, MaxDataPos, 10)
    /\ min_coverage \in 1 .. MaxCoverage
    /\ from_position = NoPosition /\ to_position = NoPosition
    /\ xs = <<>> /\ ys = <<>> /\ xs0 = <<>> /\ ys0 = <<>>
    /\ gx = concat_new(<<>>) /\ gy = concat_new(<<>>)
    /\ x = None /\ y = None
    /\ pairs = <<>> /\ signals = <<>>
    /\ rounds = 0 /\ prev = None
    /\ resample = 0
    /\ PayInit(dataset1 \o dataset2, 0, {})
    /\ no_distance_sum \in BOOLEAN
    /\ random_seed = 0
    /\ output_bed = None /\ output_annotated = None /\ kmeans = {} /\ first = None
    /\ OvIdle /\ SumIdle
    /\ IndexIdle
    /\ config = None

\* xs, ys = _index_datasets(xs_path, ys_path, config)
IndexDatasets ==
    /\ pc = "index"
    /\ LET r == index_datasets(from_path(dataset1), from_path(dataset2))
       IN  /\ pc' = IF r.exit THEN "exit" ELSE "indexed"
           /\ xs' = r.xs
           /\ ys' = r.ys
    /\ rounds' = rounds + 1
    /\ UNCHANGED <<dataset1, dataset2, min_coverage, from_position, to_position,
                   xs0, ys0, gx, gy, x, y, pairs, signals, prev>>
    /\ UNCHANGED <<ovVars, sumVars, payVars, outVars>>
    /\ UNCHANGED indexVars
    /\ UNCHANGED config

\* chromosome, strand = xs[0].chromosome, xs[0].strand
SelectMetadata ==
    /\ pc = "indexed"
    /\ pc' = IF xs = <<>> THEN "index_error" ELSE "open"
    /\ UNCHANGED <<pipeVars, ovVars, sumVars, payVars, outVars>>
    /\ UNCHANGED indexVars
    /\ UNCHANGED config

\* open(config.output_bed, "w"): the file is there and empty.  The pairs and
\* the stats are lazy: nothing of them has run.
OpenOutput ==
    /\ pc = "open"
    /\ output_bed' = [lines |-> <<>>]
    /\ pc' = "concat_pairs"
    /\ UNCHANGED <<pipeVars, ovVars, sumVars, payVars>>
    /\ UNCHANGED <<no_distance_sum, random_seed, output_annotated, kmeans, first>>
    /\ UNCHANGED indexVars
    /\ UNCHANGED config

\* concat_pairs up to its loop: both generators are made and pulled once,
\* xs first; ys is not pulled when the pull of xs raises.
ConcatPairsBegin ==
    /\ pc = "concat_pairs"
    /\ \E px \in {Pull(concat_new(xs), Effects(cache, reads, rng))} :
       \E py \in {IF px.st.raised # "" THEN NoPull(concat_new(ys), None, <<>>, px.st)
                   ELSE Pull(concat_new(ys), px.st)} :
           /\ gx' = px.g /\ xs' = px.g.fasts /\ x' = px.ret /\ xdata' = px.data
           /\ gy' = py.g /\ ys' = py.g.fasts /\ y' = py.ret /\ ydata' = py.data
           /\ cache' = py.st.cache /\ reads' = py.st.reads /\ rng' = py.st.rng
           /\ queried' = queried \o px.made \o py.made
           /\ raised' = py.st.raised
           /\ pc' = IF py.st.raised # "" THEN "exception" ELSE "pairs"
    /\ xs0' = xs /\ ys0' = ys
    /\ UNCHANGED <<dataset1, dataset2, min_coverage, from_position, to_position,
                   pairs, signals, rounds, prev>>
    /\ UNCHANGED <<ovVars, sumVars, disk, resample, outVars>>
    /\ UNCHANGED indexVars
    /\ UNCHANGED config

\* What the stats and the loop of compare_datasets do with the pair that
\* concat_pairs yields (b = "yield") and with its end (b = "break"), when
\* the output file is open: the stat, the tuples the loop gets and the
\* lines it writes.  guarded tells the distsum of nodclust from that of
\* signals.
consume(b, guarded) ==
    LET stat == kuiper(x, xdata, ydata)
        taken == IF b # "yield" THEN <<>> ELSE <<stat>>
        d == IF b = "yield" THEN distsum_pulled(window, Len(stats0), stat)
                            ELSE [window |-> window, yields |-> <<>>]
        e == IF b # "break" THEN [yields |-> <<>>, raised |-> ""]
             ELSE IF guarded THEN distsum_exhausted(window, Len(stats0))
             ELSE signals_distsum_exhausted(window, Len(stats0))
        got == IF no_distance_sum THEN taken ELSE d.yields \o e.yields
    IN  [stats0 |-> stats0 \o taken,
         window |-> IF no_distance_sum THEN window ELSE d.window,
         out |-> out \o got,
         lines |-> emit_lines(got, from_position, to_position),
         raised |-> IF no_distance_sum THEN "" ELSE e.raised]

\* One iteration of the loop of concat_pairs; after a yield, xs is pulled
\* first, and ys is not pulled when the pull of xs raises.  The consumer of
\* a yielded pair runs before the generators are pulled again.
PairsStep(guarded) ==
    /\ pc = "pairs"
    /\ LET b == concat_pairs_branch(x, y)
           pullx == b \in {"next_x", "yield"}
           pully == b \in {"next_y", "yield"}
           st == Effects(cache, reads, rng)
       IN  \E px \in {IF pullx THEN Pull(gx, st) ELSE NoPull(gx, x, xdata, st)} :
           \E py \in {IF pully /\ px.st.raised = "" THEN Pull(gy, px.st)
                       ELSE NoPull(gy, y, ydata, px.st)} :
           /\ pairs' = IF b = "yield" THEN Append(pairs, <<x, y>>) ELSE pairs
           /\ gx' = px.g /\ xs' = px.g.fasts /\ x' = px.ret /\ xdata' = px.data
           /\ gy' = py.g /\ ys' = py.g.fasts /\ y' = py.ret /\ ydata' = py.data
           /\ cache' = py.st.cache /\ reads' = py.st.reads /\ rng' = py.st.rng
           /\ queried' = queried \o px.made \o py.made
           /\ IF output_bed = None \/ b \notin {"yield", "break"}
              THEN /\ raised' = py.st.raised
                   /\ pc' = IF b = "break" THEN "done"
                            ELSE IF py.st.raised # "" THEN "exception"
                            ELSE "pairs"
                   /\ UNCHANGED <<stats0, window, out, output_bed>>
              ELSE \E c \in {consume(b, guarded)} :
                       /\ stats0' = c.stats0
                       /\ window' = c.window
                       /\ out' = c.out
                       /\ output_bed' = [lines |-> output_bed.lines \o c.lines]
                       /\ raised' = IF c.raised # "" THEN c.raised
                                     ELSE py.st.raised
                       /\ pc' = IF c.raised # "" \/ py.st.raised # ""
                                THEN "exception"
                                ELSE IF b = "break" THEN "done"
                                ELSE "pairs"
    /\ UNCHANGED <<dataset1, dataset2, min_coverage, from_position, to_position,
                   xs0, ys0, signals, rounds, prev>>
    /\ UNCHANGED <<ovVars, stats, di, disk, resample>>
    /\ UNCHANGED <<no_distance_sum, random_seed, output_annotated, kmeans, first>>
    /\ UNCHANGED indexVars
    /\ UNCHANGED config

\* The loop of concat_pairs under the stats of nodclust.
ConcatPairsStep == PairsStep(TRUE)

\* As ClusterOutput, without the test for an empty file.
ClusterOutputAlways ==
    /\ pc = "done"
    /\ output_bed # None
    /\ LET lines == output_bed.lines
           scores == [k \in 1 .. Len(lines) |-> lines[k][3]]
       IN  \E labels \in [1 .. Len(lines) -> {0, 1}] :
               /\ \A e \in kmeans : e[1] = scores => e[2] = labels
               /\ kmeans' = kmeans \cup {<<scores, labels>>}
               /\ output_annotated' = [lines |-> label_lines(lines, labels)]
               /\ pc' = "rename"
    /\ UNCHANGED <<pipeVars, ovVars, sumVars, payVars>>
    /\ UNCHANGED <<no_distance_sum, random_seed, output_bed, first>>
    /\ UNCHANGED indexVars
    /\ UNCHANGED config

\* _cluster_output: an empty file is left as it is, with a warning;
\* otherwise the lines get the labels kmeans1d.cluster gives their scores
\* and are written to the file in progress.  kmeans1d.cluster is a function
\* of the scores: it gives the labels it gave the same scores before.
ClusterOutput ==
    /\ pc = "done"
    /\ output_bed # None
    /\ IF output_bed.lines = <<>>
       THEN /\ pc' = "finished"
            /\ UNCHANGED <<output_annotated, kmeans>>
       ELSE LET lines == output_bed.lines
                scores == [k \in 1 .. Len(lines) |-> lines[k][3]]
            IN  \E labels \in [1 .. Len(lines) -> {0, 1}] :
                    /\ \A e \in kmeans : e[1] = scores => e[2] = labels
                    /\ kmeans' = kmeans \cup {<<scores, labels>>}
                    /\ output_annotated' = [lines |-> label_lines(lines, labels)]
                    /\ pc' = "rename"
    /\ UNCHANGED <<pipeVars, ovVars, sumVars, payVars>>
    /\ UNCHANGED <<no_distance_sum, random_seed, output_bed, first>>
    /\ UNCHANGED indexVars
    /\ UNCHANGED config

\* os.rename(output_annotated, config.output_bed)
RenameOutput ==
    /\ pc = "rename"
    /\ output_bed' = output_annotated
    /\ output_annotated' = None
    /\ pc' = "finished"
    /\ UNCHANGED <<pipeVars, ovVars, sumVars, payVars>>
    /\ UNCHANGED <<no_distance_sum, random_seed, kmeans, first>>
    /\ UNCHANGED indexVars
    /\ UNCHANGED config

Next ==
    \/ IndexDatasets \/ SelectMetadata \/ OpenOutput
    \/ ConcatPairsBegin \/ ConcatPairsStep
    \/ ClusterOutput \/ RenameOutput

Spec == Init /\ [][Next]_vars

(***************************************************************************)
(* compare_datasets from the listing of the files to the renamed output,   *)
(* over small datasets and over the datasets of a few scenarios: one       *)
(* record [100, 110) against one record [105, 115) or [103, 115), and      *)
(* against the records [105, 108) and [108, 115), with or without a file   *)
(* that has no Raw/Reads.                                                  *)
(***************************************************************************)
MaxRunRecs == 1      \* records of a small dataset
MaxRunPos == 2       \* positions of a small dataset
MaxRunCoverage == 2  \* largest min_coverage

Scenarios ==
    {[dataset1 |-> <<Fast5(1, 100, 110)>>, dataset2 |-> <<Fast5(11, 105, 115)>>,
      bad |-> {}],
     [dataset1 |-> <<Fast5(1, 100, 110)>>, dataset2 |-> <<Fast5(11, 103, 115)>>,
      bad |-> {}],
     [dataset1 |-> <<Fast5(1, 100, 110)>>, dataset2 |-> <<Fast5(11, 105, 115)>>,
      bad |-> {1}],
     [dataset1 |-> <<Fast5(1, 100, 110)>>,
      dataset2 |-> <<Fast5(11, 105, 108), Fast5(12, 108, 115)>>,
      bad |-> {}],
     [dataset1 |-> <<Fast5(1, 100, 110)>>,
      dataset2 |-> <<Fast5(11, 105, 108), Fast5(12, 108, 115)>>,
      bad |-> {12}]}

InitRun ==
    /\ pc = "index"
    /\ \/ /\ IsRecList(dataset1, MaxRunRecs, MaxRunPos, 0)
          /\ IsRecList(dataset2, MaxRunRecs, MaxRunPos, 10)
          /\ PayInit(dataset1 \o dataset2, 0, {})
       \/ \E sc \in Scenarios :
            /\ dataset1 = sc.dataset1
            /\ dataset2 = sc.dataset2
            /\ PayInit(dataset1 \o dataset2, 0, sc.bad)
    /\ min_coverage \in 1 .. MaxRunCoverage
    /\ from_position = NoPosition /\ to_position = NoPosition
    /\ xs = <<>> /\ ys = <<>> /\ xs0 = <<>> /\ ys0 = <<>>
    /\ gx = concat_new(<<>>) /\ gy = concat_new(<<>>)
    /\ x = None /\ y = None
    /\ pairs = <<>> /\ signals = <<>>
    /\ rounds = 0 /\ prev = None
    /\ resample = 0
    /\ no_distance_sum \in BOOLEAN
    /\ random_seed = 0
    /\ output_bed = None /\ output_annotated = None /\ kmeans = {} /\ first = None
    /\ OvIdle /\ SumIdle
    /\ IndexIdle
    /\ config = None

NextRun ==
    \/ IndexDatasets \/ SelectMetadata \/ OpenOutput
    \/ ConcatPairsBegin \/ ConcatPairsStep
    \/ ClusterOutput \/ RenameOutput

SpecRun == InitRun /\ [][NextRun]_vars

(***************************************************************************)
(* compare_datasets run twice over the same files with the same seed, with *)
(* and without resampling: the second run starts from a new Config (which seeds        *)
(* np.random again) and new Fast5 objects, and rglob may list the files in *)
(* another order.  The first dataset has up to two records, which is what  *)
(* it takes for two orders; the smoother is off, as it ends every run over *)
(* so few positions in an exception.                                       *)
(***************************************************************************)
MaxSeedPos == 2    \* positions of the datasets
MaxSeed == 1       \* largest random_seed
MaxResample == 2   \* largest resample_size

\* The orders a list can be in.
Orders(s) ==
    {[k \in 1 .. Len(s) |-> s[f[k]]] : f \in Permutations(1 .. Len(s))}

InitSeeded ==
    /\ pc = "index"
    /\ IsRecList(dataset1, 2, MaxSeedPos, 0)
    /\ IsRecList(dataset2, 1, MaxSeedPos, 10)
    /\ min_coverage = 1
    /\ from_position = NoPosition /\ to_position = NoPosition
    /\ xs = <<>> /\ ys = <<>> /\ xs0 = <<>> /\ ys0 = <<>>
    /\ gx = concat_new(<<>>) /\ gy = concat_new(<<>>)
    /\ x = None /\ y = None
    /\ pairs = <<>> /\ signals = <<>>
    /\ rounds = 0 /\ prev = None
    /\ resample \in 0 .. MaxResample
    /\ random_seed \in 0 .. MaxSeed
    /\ PayInit(dataset1 \o dataset2, random_seed, {})
    /\ no_distance_sum = TRUE
    /\ output_bed = None /\ output_annotated = None /\ kmeans = {} /\ first = None
    /\ OvIdle /\ SumIdle
    /\ IndexIdle
    /\ config = None

\* The first run is over; the program is run again.
RunAgain ==
    /\ pc \in {"exit", "index_error", "exception", "finished"}
    /\ first = None
    /\ first' = [pc |-> pc, raised |-> raised, output_bed |-> output_bed]
    /\ pc' = "index"
    /\ dataset1' \in Orders(dataset1)
    /\ dataset2' \in Orders(dataset2)
    /\ xs' = <<>> /\ ys' = <<>> /\ xs0' = <<>> /\ ys0' = <<>>
    /\ gx' = concat_new(<<>>) /\ gy' = concat_new(<<>>)
    /\ x' = None /\ y' = None
    /\ pairs' = <<>>
    /\ rounds' = 0
    /\ cache' = [q \in DOMAIN disk |-> NotCached]
    /\ reads' = [q \in DOMAIN disk |-> 0]
    /\ queried' = <<>>
    /\ rng' = np_random_seed(random_seed)
    /\ xdata' = <<>> /\ ydata' = <<>>
    /\ raised' = ""
    /\ stats0' = <<>> /\ window' = <<>> /\ out' = <<>>
    /\ UNCHANGED <<min_coverage, from_position, to_position, signals, prev>>
    /\ UNCHANGED <<ovVars, stats, di, disk, resample>>
    /\ UNCHANGED <<no_distance_sum, random_seed, output_bed, output_annotated, kmeans>>
    /\ UNCHANGED indexVars
    /\ UNCHANGED config

NextSeeded ==
    \/ IndexDatasets \/ SelectMetadata \/ OpenOutput
    \/ ConcatPairsBegin \/ ConcatPairsStep
    \/ ClusterOutput \/ RenameOutput
    \/ RunAgain

SpecSeeded == InitSeeded /\ [][NextSeeded]_vars

(***************************************************************************)
(* One Fast5 object whose signal_at is called without resampling on any    *)
(* of its positions, in any order.  Its file holds any fragment lengths,   *)
(* a raw signal of as many values as the fragments and the cut take, and   *)
(* is of a DNA or an RNA read.                                             *)
(***************************************************************************)
MaxFragment == 2    \* values of a fragment
MaxFast5Pos == 3    \* positions of the record
MaxCalls == 2       \* calls of signal_at

\* The file of a record that starts at start and has the fragment lengths
\* lengths.
FileWith(start, lengths, cut, rna) ==
    [mapped_start |-> start,
     length |-> lengths,
     raw_reads |-> TRUE,
     Signal |-> [j \in 1 .. cut + SumOf(lengths) |-> 1 + 2 * j],
     read_start_rel_to_raw |-> cut,
     shift |-> 1,
     scale |-> 2,
     rna |-> rna]

InitFast5 ==
    /\ pc = "fast5"
    /\ PipeIdle /\ OvIdle /\ SumIdle /\ OutIdle
    /\ \E n \in 1 .. MaxFast5Pos : \E lengths \in [1 .. n -> 0 .. MaxFragment] :
       \E cut \in 0 .. 1 : \E rna \in BOOLEAN :
            disk = [q \in {1} |-> FileWith(5, lengths, cut, rna)]
    /\ cache = [q \in DOMAIN disk |-> NotCached]
    /\ reads = [q \in DOMAIN disk |-> 0]
    /\ queried = <<>>
    /\ rng = 0 /\ resample = 0
    /\ xdata = <<>> /\ ydata = <<>>
    /\ raised = ""
    /\ IndexIdle
    /\ config = None

\* f.signal_at(p, 0) for a position p of the record; xdata is what it
\* returns.
CallSignalAt ==
    /\ pc = "fast5"
    /\ Len(queried) < MaxCalls
    /\ \E p \in disk[1].mapped_start ..
                 disk[1].mapped_start + Len(disk[1].length) - 1 :
       \E e \in {Fast5_signal_at(1, p, resample, Effects(cache, reads, rng))} :
            /\ cache' = e.cache /\ reads' = e.reads /\ rng' = e.rng
            /\ raised' = e.raised
            /\ xdata' = e.ret
            /\ queried' = Append(queried, <<1, p>>)
    /\ UNCHANGED <<pc, pipeVars, ovVars, sumVars, outVars>>
    /\ UNCHANGED <<disk, resample, ydata>>
    /\ UNCHANGED indexVars
    /\ UNCHANGED config

NextFast5 == CallSignalAt

SpecFast5 == InitFast5 /\ [][NextFast5]_vars

(***************************************************************************)
(* run_on_datasets of signals.run, called with an open file: the datasets  *)
(* are indexed, then the pairs are compared and the lines written.         *)
(***************************************************************************)
InitSignals ==
    /\ pc = "signals_index"
    /\ IsRecList(dataset1, MaxRunRecs, MaxRunPos, 0)
    /\ IsRecList(dataset2, MaxRunRecs, MaxRunPos, 10)
    /\ PayInit(dataset1 \o dataset2, 0, {})
    /\ min_coverage \in 1 .. MaxRunCoverage
    /\ from_position = NoPosition /\ to_position = NoPosition
    /\ xs = <<>> /\ ys = <<>> /\ xs0 = <<>> /\ ys0 = <<>>
    /\ gx = concat_new(<<>>) /\ gy = concat_new(<<>>)
    /\ x = None /\ y = None
    /\ pairs = <<>> /\ signals = <<>>
    /\ rounds = 0 /\ prev = None
    /\ resample = 0
    /\ no_distance_sum \in BOOLEAN
    /\ random_seed = 0
    /\ output_bed = [lines |-> <<>>]
    /\ output_annotated = None /\ kmeans = {} /\ first = None
    /\ OvIdle /\ SumIdle
    /\ IndexIdle
    /\ config = None

\* xs, ys = index_datasets(xs_path, ys_path, strand, chrom)
SignalsIndexDatasets ==
    /\ pc = "signals_index"
    /\ LET r == signals_index_datasets(dataset1, dataset2)
       IN  /\ xs' = r.xs
           /\ ys' = r.ys
    /\ pc' = "concat_pairs"
    /\ rounds' = rounds + 1
    /\ UNCHANGED <<dataset1, dataset2, min_coverage, from_position, to_position,
                   xs0, ys0, gx, gy, x, y, pairs, signals, prev>>
    /\ UNCHANGED <<ovVars, sumVars, payVars, outVars>>
    /\ UNCHANGED indexVars
    /\ UNCHANGED config

\* The loop of concat_pairs under the stats of signals.
SignalsPairsStep == PairsStep(FALSE)

NextSignals == SignalsIndexDatasets \/ ConcatPairsBegin \/ SignalsPairsStep

SpecSignals == InitSignals /\ [][NextSignals]_vars

(***************************************************************************)
(* The two-pass pruning applied to its own result.                         *)
(***************************************************************************)
Reindex ==
    /\ pc = "indexed"
    /\ rounds = 1
    /\ dataset1' = xs /\ dataset2' = ys
    /\ prev' = [xs |-> xs, ys |-> ys, dataset1 |-> dataset1, dataset2 |-> dataset2]
    /\ pc' = "index"
    /\ UNCHANGED <<min_coverage, from_position, to_position, xs, ys, xs0, ys0,
                   gx, gy, x, y, pairs, signals, rounds>>
    /\ UNCHANGED <<ovVars, sumVars, payVars, outVars>>
    /\ UNCHANGED indexVars
    /\ UNCHANGED config

InitPrune == Init /\ min_coverage = 1 /\ no_distance_sum

NextPrune == IndexDatasets \/ Reindex

SpecPrune == InitPrune /\ [][NextPrune]_vars

(***************************************************************************)
(* concat_pairs over two record lists that make any two streams: one       *)
(* record [p, p + 1) for each position p of the stream, listed from the    *)
(* last position to the first.                                             *)
(***************************************************************************)
RECURSIVE UnitList(_, _)
UnitList(S, base) ==
    IF S = {} THEN <<>>
    ELSE LET p == CHOOSE e \in S : \A o \in S : e >= o
         IN  <<Fast5(base + p, p, p + 1)>> \o UnitList(S \ {p}, base)

InitPairs ==
    /\ pc = "concat_pairs"
    /\ dataset1 = <<>> /\ dataset2 = <<>>
    /\ min_coverage \in 1 .. MaxCoverage
    /\ from_position = NoPosition /\ to_position = NoPosition
    /\ \E S \in SUBSET (0 .. MaxStreamPos - 1) : xs = UnitList(S, 0)
    /\ \E S \in SUBSET (0 .. MaxStreamPos - 1) : ys = UnitList(S, 10)
    /\ xs0 = <<>> /\ ys0 = <<>>
    /\ gx = concat_new(<<>>) /\ gy = concat_new(<<>>)
    /\ x = None /\ y = None
    /\ pairs = <<>> /\ signals = <<>>
    /\ rounds = 0 /\ prev = None
    /\ resample = 0
    /\ PayInit(xs \o ys, 0, {})
    /\ OvIdle /\ SumIdle /\ OutIdle
    /\ IndexIdle
    /\ config = None

NextPairs == ConcatPairsBegin \/ ConcatPairsStep

SpecPairs == InitPairs /\ [][NextPairs]_vars

(***************************************************************************)
(* One generator _concat(fasts, ...) run to its end.                       *)
(***************************************************************************)
FromPosition == 7   \* the from_position tried besides None

InitConcat ==
    /\ pc = "concat"
    /\ dataset1 = <<>> /\ dataset2 = <<>>
    /\ min_coverage \in 1 .. MaxCoverage
    /\ from_position \in {NoPosition, FromPosition}
    /\ to_position = NoPosition
    /\ IsRecList(xs, MaxFasts, MaxPos, 0)
    /\ xs0 = xs
    /\ gx = concat_new(xs)
    /\ ys = <<>> /\ ys0 = <<>> /\ gy = concat_new(<<>>)
    /\ x = None /\ y = None
    /\ pairs = <<>> /\ signals = <<>>
    /\ rounds = 0 /\ prev = None
    /\ resample = 0
    /\ PayInit(xs, 0, {})
    /\ OvIdle /\ SumIdle /\ OutIdle
    /\ IndexIdle
    /\ config = None

\* next(g, None) on the generator.
ConcatNext ==
    /\ pc = "concat"
    /\ \E r \in {Pull(gx, Effects(cache, reads, rng))} :
           /\ gx' = r.g
           /\ xs' = r.g.fasts
           /\ x' = r.ret
           /\ xdata' = r.data
           /\ signals' = IF r.ret = None THEN signals ELSE Append(signals, r.ret)
           /\ cache' = r.st.cache /\ reads' = r.st.reads /\ rng' = r.st.rng
           /\ queried' = queried \o r.made
           /\ raised' = r.st.raised
           /\ pc' = IF r.st.raised # "" THEN "exception"
                    ELSE IF r.ret = None THEN "concat_done"
                    ELSE "concat"
    /\ UNCHANGED <<dataset1, dataset2, min_coverage, from_position, to_position,
                   ys, xs0, ys0, gy, y, pairs, rounds, prev>>
    /\ UNCHANGED <<ovVars, sumVars, disk, resample, ydata, outVars>>
    /\ UNCHANGED indexVars
    /\ UNCHANGED config

NextConcat == ConcatNext

SpecConcat == InitConcat /\ [][NextConcat]_vars

(***************************************************************************)
(* Fast5.overlap over any sorted target list.                              *)
(***************************************************************************)
InitOverlap ==
    /\ pc = "overlap"
    /\ PipeIdle /\ SumIdle /\ PayIdle /\ OutIdle
    /\ \E len \in 0 .. MaxFasts : \E iv \in [1 .. len -> Intervals(MaxPos)] :
            ovFasts = sorted_start_negend(RecList(iv, 0))
    /\ ovSelf \in {Fast5(0, iv[1], iv[2]) : iv \in Intervals(MaxPos)}
    /\ ovRet = None
    /\ ovCalled = FALSE
    /\ IndexIdle
    /\ config = None

CallOverlap ==
    /\ pc = "overlap"
    /\ ovRet' = overlap(ovSelf, ovFasts)
    /\ ovCalled' = TRUE
    /\ pc' = "overlap_done"
    /\ UNCHANGED <<ovSelf, ovFasts, pipeVars, sumVars, payVars, outVars>>
    /\ UNCHANGED indexVars
    /\ UNCHANGED config

NextOverlap == CallOverlap

SpecOverlap == InitOverlap /\ [][NextOverlap]_vars

(***************************************************************************)
(* distsum over a stream of (position, value) tuples.                      *)
(***************************************************************************)
\* The elements of a set of integers in ascending order.
RECURSIVE Ascending(_)
Ascending(S) ==
    IF S = {} THEN <<>>
    ELSE LET m == CHOOSE e \in S : \A o \in S : e <= o
         IN  <<m>> \o Ascending(S \ {m})

\* The streams the distance stage can hand over: strictly increasing positions.
StatStreams(n) ==
    UNION {{[k \in 1 .. Len(ps) |-> <<ps[k], vs[k]>>] :
                vs \in [1 .. Len(ps) -> 1 .. MaxValue]} :
           ps \in {Ascending(S) : S \in {T \in SUBSET (0 .. MaxStatPos) :
                                             Cardinality(T) <= n}}}

\* Window size 5, positions [10,11,12,13,20], values [1,2,3,4,5].
BoundaryExample == <<<<10, 1>>, <<11, 2>>, <<12, 3>>, <<13, 4>>, <<20, 5>>>>

InitDistsum ==
    /\ pc = "distsum"
    /\ PipeIdle /\ OvIdle /\ PayIdle /\ OutIdle
    /\ stats \in StatStreams(MaxStats) \cup {BoundaryExample}
    /\ stats0 = stats
    /\ window = <<>>
    /\ di = 0
    /\ out = <<>>
    /\ IndexIdle
    /\ config = None

\* The deque is made and filled with the first WINDOW_SIZE tuples, if any.
RECURSIVE populate(_, _, _)
populate(w, st, n) ==
    IF n = 0 THEN [window |-> w, stats |-> st]
    ELSE IF st = <<>> THEN populate(w, st, n - 1)
    ELSE populate(deque_append(w, Head(st)), Tail(st), n - 1)

DistsumPopulate ==
    /\ pc = "distsum"
    /\ LET r == populate(<<>>, stats, WINDOW_SIZE)
       IN  /\ window' = r.window
           /\ stats' = r.stats
           /\ pc' = IF r.window = <<>> THEN "sum_done" ELSE "prefix"
    /\ di' = 0
    /\ UNCHANGED <<stats0, out, pipeVars, ovVars, payVars, outVars>>
    /\ UNCHANGED indexVars
    /\ UNCHANGED config

\* for i in range(WINDOW_SIZE // 2): yield from _distsum_at(window, i)
DistsumPrefix ==
    /\ pc = "prefix"
    /\ IF di < WINDOW_SIZE \div 2
       THEN IF distsum_assert(window, di)
            THEN /\ out' = Append(out, distsum_at(window, di))
                 /\ di' = di + 1
                 /\ pc' = "prefix"
            ELSE /\ pc' = "sum_error"
                 /\ UNCHANGED <<out, di>>
       ELSE /\ pc' = "stream"
            /\ UNCHANGED <<out, di>>
    /\ UNCHANGED <<stats, stats0, window, pipeVars, ovVars, payVars, outVars>>
    /\ UNCHANGED indexVars
    /\ UNCHANGED config

\* for stat in stats: yield the centre, popleft, append
DistsumStream ==
    /\ pc = "stream"
    /\ IF stats # <<>>
       THEN IF distsum_assert(window, WINDOW_SIZE \div 2)
            THEN /\ out' = Append(out, distsum_at(window, WINDOW_SIZE \div 2))
                 /\ window' = deque_append(Tail(window), Head(stats))
                 /\ stats' = Tail(stats)
                 /\ pc' = "stream"
                 /\ di' = di
            ELSE /\ pc' = "sum_error"
                 /\ stats' = Tail(stats)
                 /\ UNCHANGED <<out, window, di>>
       ELSE /\ pc' = "suffix"
            /\ di' = WINDOW_SIZE \div 2
            /\ UNCHANGED <<out, window, stats>>
    /\ UNCHANGED <<stats0, pipeVars, ovVars, payVars, outVars>>
    /\ UNCHANGED indexVars
    /\ UNCHANGED config

\* for i in range(WINDOW_SIZE // 2, WINDOW_SIZE): yield from _distsum_at(window, i)
DistsumSuffix ==
    /\ pc = "suffix"
    /\ IF di < WINDOW_SIZE
       THEN IF distsum_assert(window, di)
            THEN /\ out' = Append(out, distsum_at(window, di))
                 /\ di' = di + 1
                 /\ pc' = "suffix"
            ELSE /\ pc' = "sum_error"
                 /\ UNCHANGED <<out, di>>
       ELSE /\ pc' = "sum_done"
            /\ UNCHANGED <<out, di>>
    /\ UNCHANGED <<stats, stats0, window, pipeVars, ovVars, payVars, outVars>>
    /\ UNCHANGED indexVars
    /\ UNCHANGED config

NextDistsum == DistsumPopulate \/ DistsumPrefix \/ DistsumStream \/ DistsumSuffix

SpecDistsum == InitDistsum /\ [][NextDistsum]_vars

(***************************************************************************)
(* The other two smoothers of the repository: signals.distsum, which has   *)
(* no test for an empty window, and modena's distance_summing, whose       *)
(* tuples carry the coverage behind the position and the distance.         *)
(***************************************************************************)
\* signals.distsum: the window is filled; nothing is tested after that.
SignalsDistsumPopulate ==
    /\ pc = "signals_distsum"
    /\ LET r == populate(<<>>, stats, WINDOW_SIZE)
       IN  /\ window' = r.window
           /\ stats' = r.stats
    /\ pc' = "signals_prefix"
    /\ di' = 0
    /\ UNCHANGED <<stats0, out, pipeVars, ovVars, payVars, outVars>>
    /\ UNCHANGED indexVars
    /\ UNCHANGED config

\* for i in range(window_size // 2): yield from _distsum_at(window, i)
SignalsDistsumPrefix ==
    /\ pc = "signals_prefix"
    /\ IF di < WINDOW_SIZE \div 2
       THEN IF distsum_assert(window, di)
            THEN /\ out' = Append(out, distsum_at(window, di))
                 /\ di' = di + 1
                 /\ pc' = "signals_prefix"
            ELSE /\ pc' = "sum_error"
                 /\ UNCHANGED <<out, di>>
       ELSE /\ pc' = "signals_stream"
            /\ UNCHANGED <<out, di>>
    /\ UNCHANGED <<stats, stats0, window, pipeVars, ovVars, payVars, outVars>>
    /\ UNCHANGED indexVars
    /\ UNCHANGED config

\* for stat in stats: yield the centre, popleft, append
SignalsDistsumStream ==
    /\ pc = "signals_stream"
    /\ IF stats # <<>>
       THEN IF distsum_assert(window, WINDOW_SIZE \div 2)
            THEN /\ out' = Append(out, distsum_at(window, WINDOW_SIZE \div 2))
                 /\ window' = deque_append(Tail(window), Head(stats))
                 /\ stats' = Tail(stats)
                 /\ pc' = "signals_stream"
                 /\ di' = di
            ELSE /\ pc' = "sum_error"
                 /\ stats' = Tail(stats)
                 /\ UNCHANGED <<out, window, di>>
       ELSE /\ pc' = "signals_suffix"
            /\ di' = WINDOW_SIZE \div 2
            /\ UNCHANGED <<out, window, stats>>
    /\ UNCHANGED <<stats0, pipeVars, ovVars, payVars, outVars>>
    /\ UNCHANGED indexVars
    /\ UNCHANGED config

\* for i in range(window_size // 2, window_size): yield from _distsum_at(window, i)
SignalsDistsumSuffix ==
    /\ pc = "signals_suffix"
    /\ IF di < WINDOW_SIZE
       THEN IF distsum_assert(window, di)
            THEN /\ out' = Append(out, distsum_at(window, di))
                 /\ di' = di + 1
                 /\ pc' = "signals_suffix"
            ELSE /\ pc' = "sum_error"
                 /\ UNCHANGED <<out, di>>
       ELSE /\ pc' = "sum_done"
            /\ UNCHANGED <<out, di>>
    /\ UNCHANGED <<stats, stats0, window, pipeVars, ovVars, payVars, outVars>>
    /\ UNCHANGED indexVars
    /\ UNCHANGED config

\* modena's _distsum_at: yield (window[i][0], sum_dists, *window[i][2:])
distance_summing_at(w, i) ==
    distsum_at(w, i) \o SubSeq(w[i + 1], 3, Len(w[i + 1]))

\* distance_summing: the window is filled; an empty window ends the generator.
DistanceSummingPopulate ==
    /\ pc = "distance_summing"
    /\ LET r == populate(<<>>, stats, WINDOW_SIZE)
       IN  /\ window' = r.window
           /\ stats' = r.stats
           /\ pc' = IF r.window = <<>> THEN "sum_done" ELSE "modena_prefix"
    /\ di' = 0
    /\ UNCHANGED <<stats0, out, pipeVars, ovVars, payVars, outVars>>
    /\ UNCHANGED indexVars
    /\ UNCHANGED config

\* for i in range(window_size // 2): yield from _distsum_at(window, i)
DistanceSummingPrefix ==
    /\ pc = "modena_prefix"
    /\ IF di < WINDOW_SIZE \div 2
       THEN IF distsum_assert(window, di)
            THEN /\ out' = Append(out, distance_summing_at(window, di))
                 /\ di' = di + 1
                 /\ pc' = "modena_prefix"
            ELSE /\ pc' = "sum_error"
                 /\ UNCHANGED <<out, di>>
       ELSE /\ pc' = "modena_stream"
            /\ UNCHANGED <<out, di>>
    /\ UNCHANGED <<stats, stats0, window, pipeVars, ovVars, payVars, outVars>>
    /\ UNCHANGED indexVars
    /\ UNCHANGED config

\* for stat in stats: yield the centre, popleft, append
DistanceSummingStream ==
    /\ pc = "modena_stream"
    /\ IF stats # <<>>
       THEN IF distsum_assert(window, WINDOW_SIZE \div 2)
            THEN /\ out' = Append(out, distance_summing_at(window, WINDOW_SIZE \div 2))
                 /\ window' = deque_append(Tail(window), Head(stats))
                 /\ stats' = Tail(stats)
                 /\ pc' = "modena_stream"
                 /\ di' = di
            ELSE /\ pc' = "sum_error"
                 /\ stats' = Tail(stats)
                 /\ UNCHANGED <<out, window, di>>
       ELSE /\ pc' = "modena_suffix"
            /\ di' = WINDOW_SIZE \div 2
            /\ UNCHANGED <<out, window, stats>>
    /\ UNCHANGED <<stats0, pipeVars, ovVars, payVars, outVars>>
    /\ UNCHANGED indexVars
    /\ UNCHANGED config

\* for i in range(window_size // 2, window_size): yield from _distsum_at(window, i)
DistanceSummingSuffix ==
    /\ pc = "modena_suffix"
    /\ IF di < WINDOW_SIZE
       THEN IF distsum_assert(window, di)
            THEN /\ out' = Append(out, distance_summing_at(window, di))
                 /\ di' = di + 1
                 /\ pc' = "modena_suffix"
            ELSE /\ pc' = "sum_error"
                 /\ UNCHANGED <<out, di>>
       ELSE /\ pc' = "sum_done"
            /\ UNCHANGED <<out, di>>
    /\ UNCHANGED <<stats, stats0, window, pipeVars, ovVars, payVars, outVars>>
    /\ UNCHANGED indexVars
    /\ UNCHANGED config

\* A result of compare_position_pairs: position, distance, total coverage.
Results(st) == [k \in 1 .. Len(st) |-> <<st[k][1], st[k][2], 2 * st[k][2]>>]

\* Each of the three smoothers over any stream, the empty one included.
InitSmoothers ==
    /\ pc \in {"distsum", "signals_distsum", "distance_summing"}
    /\ PipeIdle /\ OvIdle /\ PayIdle /\ OutIdle
    /\ \E st \in StatStreams(MaxStats) :
            stats = IF pc = "distance_summing" THEN Results(st) ELSE st
    /\ stats0 = stats
    /\ window = <<>>
    /\ di = 0
    /\ out = <<>>
    /\ IndexIdle
    /\ config = None

NextSmoothers ==
    \/ DistsumPopulate \/ DistsumPrefix \/ DistsumStream \/ DistsumSuffix
    \/ SignalsDistsumPopulate \/ SignalsDistsumPrefix
    \/ SignalsDistsumStream \/ SignalsDistsumSuffix
    \/ DistanceSummingPopulate \/ DistanceSummingPrefix
    \/ DistanceSummingStream \/ DistanceSummingSuffix

SpecSmoothers == InitSmoothers /\ [][NextSmoothers]_vars

(***************************************************************************)
(* Notions the properties are stated with.                                 *)
(***************************************************************************)
\* Two half-open intervals share a position.
Overlaps(a, b) == a.start < b.end /\ b.start < a.end

\* The number of records of a list whose interval contains position p.
Coverage(fasts, p) ==
    Cardinality({k \in 1 .. Len(fasts) : fasts[k].start <= p /\ p < fasts[k].end})

Range(s) == {s[k] : k \in 1 .. Len(s)}

Positions(sigs) == [k \in 1 .. Len(sigs) |-> sigs[k].position]

StrictlyIncreasing(ps) == \A k \in 1 .. Len(ps) - 1 : ps[k] < ps[k + 1]

\* The whole stream of Signals a generator _concat over fasts yields.
RECURSIVE Drain(_, _, _, _, _)
Drain(g, mc, n, fp, tp) ==
    LET r == concat_next(g, mc, n, fp, tp)
    IN  IF r.ret = None THEN <<>> ELSE <<r.ret>> \o Drain(r.g, mc, n, fp, tp)

Stream(fasts) ==
    Drain(concat_new(fasts), min_coverage, resample, from_position, to_position)

\* The positions compare_datasets has a score for: one per yielded pair.
EmittedPositions == {pairs[k][1].position : k \in 1 .. Len(pairs)}

\* The positions covered min_coverage times in both datasets.
JointPositions ==
    {p \in 0 .. MaxDataPos - 1 : /\ Coverage(dataset1, p) >= min_coverage
                                 /\ Coverage(dataset2, p) >= min_coverage}

(***************************************************************************)
(* C1: the positions the pipeline emits a score for are exactly the        *)
(* positions covered at least min_coverage times in both datasets; the     *)
(* mutual pruning removes none of them.                                    *)
(***************************************************************************)
C1_EmitsJointPositions ==
    pc \in {"done", "exit", "index_error"} => EmittedPositions = JointPositions

(***************************************************************************)
(* C2: over a list sorted by (start, -end), overlap returns a record iff   *)
(* some element overlaps the query, and it returns the first such element. *)
(***************************************************************************)
C2_OverlapFindsFirst ==
    ovCalled =>
        LET hits == {k \in 1 .. Len(ovFasts) : Overlaps(ovSelf, ovFasts[k])}
        IN  IF hits = {} THEN ovRet = None
            ELSE ovRet = ovFasts[CHOOSE k \in hits : \A m \in hits : k <= m]

(***************************************************************************)
(* C3: on a one-element target list [b], a.overlap returns b iff           *)
(* a.start < b.end and b.start < a.end, and nothing when the intervals are *)
(* disjoint or touching; on an empty list it returns nothing.              *)
(***************************************************************************)
C3_OverlapOfPair ==
    /\ (ovCalled /\ Len(ovFasts) = 1) =>
            /\ (ovRet = ovFasts[1]) <=> Overlaps(ovSelf, ovFasts[1])
            /\ ~Overlaps(ovSelf, ovFasts[1]) => ovRet = None
    /\ (ovCalled /\ ovFasts = <<>>) => ovRet = None

\* A call on a one-element list whose record starts where the query ends.
C3_Witness ==
    /\ ovCalled /\ Len(ovFasts) = 1
    /\ ovFasts[1].end = ovSelf.start
    /\ ovRet = None

(***************************************************************************)
(* C4: when _index_datasets returns, ys holds exactly the records of the   *)
(* second dataset that overlap a record of the first, and xs exactly the   *)
(* records of the first dataset that overlap a record of ys.               *)
(***************************************************************************)
C4_PruningExact ==
    pc = "indexed" =>
        /\ Range(ys) = {r \in Range(dataset2) :
                            \E q \in Range(dataset1) : Overlaps(r, q)}
        /\ Range(xs) = {r \in Range(dataset1) :
                            \E q \in Range(ys) : Overlaps(r, q)}

(***************************************************************************)
(* C5: the two-pass pruning applied to its own result returns that result. *)
(***************************************************************************)
C5_PruningIdempotent ==
    (prev # None /\ pc # "index") =>
        /\ pc = "indexed"
        /\ xs = prev.xs
        /\ ys = prev.ys

\* A second pruning has returned, after a first one that dropped a record of
\* the first dataset and kept two records of the second.
C5_Witness ==
    /\ prev # None /\ pc = "indexed" /\ rounds = 2
    /\ Len(prev.xs) < Len(prev.dataset1)
    /\ Len(prev.ys) = 2

(***************************************************************************)
(* C6: the coverage of every Signal _concat yields is the number of        *)
(* records of the whole input list that contain its position, it is at     *)
(* least min_coverage, and it is never zero.                               *)
(***************************************************************************)
C6_CoverageExact ==
    \A k \in 1 .. Len(signals) :
        /\ signals[k].coverage = Coverage(xs0, signals[k].position)
        /\ signals[k].coverage >= min_coverage
        /\ signals[k].coverage >= 1

\* A finished run over three records, one nested in another, that yielded a
\* position covered twice.
C6_Witness ==
    /\ pc = "concat_done" /\ Len(xs0) = 3
    /\ \E a, b \in 1 .. 3 : /\ xs0[a].start < xs0[b].start
                            /\ xs0[b].end < xs0[a].end
    /\ \E k \in 1 .. Len(signals) : signals[k].coverage = 2

(***************************************************************************)
(* C7: the positions _concat yields are strictly increasing.               *)
(***************************************************************************)
C7_PositionsIncrease == StrictlyIncreasing(Positions(signals))

\* A finished run that yielded several positions from a list in which one
\* record lies inside an earlier one and two records share their start.
C7_Witness ==
    /\ pc = "concat_done" /\ Len(signals) >= 2
    /\ \E a, b \in 1 .. Len(xs0) : /\ xs0[a].start < xs0[b].start
                                   /\ xs0[b].end < xs0[a].end
    /\ \E a, b \in 1 .. Len(xs0) : a # b /\ xs0[a].start = xs0[b].start

(***************************************************************************)
(* C8: concat_pairs yields exactly one pair of same-position Signals for   *)
(* each position that both streams hold, and no other, in strictly         *)
(* ascending order.                                                        *)
(***************************************************************************)
C8_PairsAreIntersection ==
    pc \in {"pairs", "done"} =>
        LET sx == Stream(xs0)
            sy == Stream(ys0)
            both == Range(Positions(sx)) \cap Range(Positions(sy))
        IN  /\ \A k \in 1 .. Len(pairs) :
                    /\ pairs[k][1].position = pairs[k][2].position
                    /\ pairs[k][1] \in Range(sx)
                    /\ pairs[k][2] \in Range(sy)
            /\ StrictlyIncreasing([k \in 1 .. Len(pairs) |-> pairs[k][1].position])
            /\ EmittedPositions \subseteq both
            /\ pc = "done" => EmittedPositions = both

\* The merge has ended after yielding a pair and after skipping a position
\* of each stream that the other stream lacks.
C8_Witness ==
    /\ pc = "done" /\ Len(pairs) >= 1
    /\ Range(Positions(Stream(xs0))) \ Range(Positions(Stream(ys0))) # {}
    /\ Range(Positions(Stream(ys0))) \ Range(Positions(Stream(xs0))) # {}

(***************************************************************************)
(* C9: for an input stream of any length the smoother yields one tuple     *)
(* per input tuple, with the input positions in input order, and finishes  *)
(* without violating the assertion of _distsum_at.                         *)
(***************************************************************************)
C9_CountAndOrderKept ==
    /\ pc # "sum_error"
    /\ pc = "sum_done" =>
            /\ Len(out) = Len(stats0)
            /\ \A k \in 1 .. Len(out) : out[k][1] = stats0[k][1]

(***************************************************************************)
(* C10: the value yielded for input tuple i is the sum of the values of    *)
(* the input tuples whose position is within WINDOW_SIZE // 2 of the       *)
(* position of i; for positions [10,11,12,13,20] and values [1,2,3,4,5]    *)
(* that is 10 at position 12 and 5 at position 20.                         *)
(***************************************************************************)
WindowedSum(st, i) ==
    LET S[j \in 0 .. Len(st)] ==
            IF j = 0 THEN 0
            ELSE S[j - 1] +
                 (IF Abs(st[i][1] - st[j][1]) <= WINDOW_SIZE \div 2
                  THEN st[j][2] ELSE 0)
    IN  S[Len(st)]

C10_SumOverNearPositions ==
    /\ \A k \in 1 .. Len(out) : out[k] = <<stats0[k][1], WindowedSum(stats0, k)>>
    /\ (stats0 = BoundaryExample /\ pc = "sum_done") =>
            /\ out[3] = <<12, 10>>
            /\ out[5] = <<20, 5>>

\* The smoother has finished the boundary example.
C10_Witness ==
    /\ stats0 = BoundaryExample /\ pc = "sum_done"
    /\ Len(out) = 5

(***************************************************************************)
(* C11: when the upstream stream yields nothing, each smoother             *)
(* (nodclust.distsum, signals.distsum, modena's distance_summing) emits    *)
(* nothing and finishes without raising.                                   *)
(***************************************************************************)
C11_EmptyStreamEmitsNothing ==
    stats0 = <<>> =>
        /\ pc # "sum_error"
        /\ out = <<>>

\* The positions of the pairs concat_pairs has yielded.
PairPositions == [k \in 1 .. Len(pairs) |-> pairs[k][1].position]

\* The run has gone through concat_pairs.
Merged == pc \in {"done", "rename", "finished"}

\* The scenario of one record [100, 110) against one record [105, 115),
\* readable, with min_coverage 1 and neither resampling nor smoothing.
RoundTripScenario ==
    /\ dataset1 = <<Fast5(1, 100, 110)>>
    /\ dataset2 = <<Fast5(11, 105, 115)>>
    /\ \A q \in DOMAIN disk : disk[q].raw_reads
    /\ min_coverage = 1 /\ resample = 0 /\ no_distance_sum

\* C13: in the scenario [100, 110) against [105, 115) with min_coverage 1
\* and neither resampling nor smoothing, both records survive the pruning,
\* concat_pairs yields the positions 105 .. 109 in that order, the run does
\* not end in an exit or an exception, and the output has 5 lines, one for
\* each position.
C13_RoundTrip ==
    RoundTripScenario =>
        /\ pc \notin {"exit", "index_error", "exception"}
        /\ pc \in {"indexed", "open", "concat_pairs"} =>
                xs = dataset1 /\ ys = dataset2
        /\ pc \in {"pairs", "done", "rename", "finished"} =>
                xs0 = dataset1 /\ ys0 = dataset2
        /\ Merged => PairPositions = <<105, 106, 107, 108, 109>>
        /\ pc \in {"done", "finished"} =>
                /\ Len(output_bed.lines) = 5
                /\ \A k \in 1 .. 5 : output_bed.lines[k][1] = 105 + k
        /\ pc = "finished" => \A k \in 1 .. 5 : Len(output_bed.lines[k]) = 4

C13_Witness ==
    /\ RoundTripScenario
    /\ pc = "finished"
    /\ Len(output_bed.lines) = 5

\* No record of one dataset overlaps a record of the other.
NoOverlap ==
    \A i \in 1 .. Len(dataset1) : \A j \in 1 .. Len(dataset2) :
        ~Overlaps(dataset1[i], dataset2[j])

\* C14: when no record of one dataset overlaps a record of the other, the
\* only step of the run is the one to the fatal exit: no generator is made,
\* no payload is read and no line is written.
C14_NoOverlapIsFatal ==
    NoOverlap =>
        /\ pc \in {"index", "signals_index", "exit"}
        /\ pairs = <<>>
        /\ \A q \in DOMAIN reads : reads[q] = 0
        /\ output_bed # None => output_bed.lines = <<>>

\* C15: a run that an exception has ended leaves no line at the output
\* path: the path holds no file, or a file without a result line.  The
\* runs without the smoother are enough to tell: their exceptions are those
\* of the payload.
C15_NoTruncatedOutput ==
    pc = "exception" /\ no_distance_sum =>
        output_bed = None \/ output_bed.lines = <<>>

\* C16: a run does not return normally from compare_datasets when its
\* statistic stream was empty: a run that ends normally has compared at
\* least one position.
C16_CoverageExhaustionIsFatal ==
    pc = "finished" => pairs # <<>>

\* The run is over.
Over == pc \in {"exit", "index_error", "exception", "finished"}

Fragment(path, p) ==
    LET r == read_signal(disk[path])
        k == p - disk[path].mapped_start
        o == SumOf(SubSeq(r.lengths, 1, k))
    IN  SubSeq(r.signal, o + 1, o + r.lengths[k + 1])

\* The fragments of the records that make a sample, in their order.
FragmentsOf(sig) ==
    [k \in 1 .. Len(sig.data) |-> Fragment(sig.data[k][1], sig.data[k][2])]

\* The data of a sample are as the resampling makes them: without it, the
\* fragments of the contributors one after the other; with it, resample
\* values for each contributor, each of them a value of its fragment.
Sampled(sig, data) ==
    LET frs == FragmentsOf(sig)
    IN  /\ Len(sig.data) = sig.coverage
        /\ IF resample = 0
           THEN /\ data = Flatten(frs)
                /\ Len(data) = SumOf([k \in 1 .. Len(frs) |-> Len(frs[k])])
           ELSE /\ Len(data) = sig.coverage * resample
                /\ \A k \in 1 .. Len(frs) : \A n \in 1 .. resample :
                       \E m \in 1 .. Len(frs[k]) :
                           data[(k - 1) * resample + n] = frs[k][m]

\* C17: every Signal a generator has yielded holds, for each record that
\* contributes to it, resample values of the record's own fragment when
\* resample > 0 (len(data) = coverage * resample), and the fragment itself
\* when resample = 0 (len(data) = the sum of the fragment lengths).
C17_SampleSizes ==
    /\ x # None => Sampled(x, xdata)
    /\ y # None => Sampled(y, ydata)

C17_Witness ==
    /\ x # None
    /\ x.coverage = 2
    /\ resample = 2
    /\ Len(xdata) = 4
    /\ Len(Fragment(x.data[2][1], x.data[2][2])) = 2

\* As C17_Witness, without resampling: fragments of different lengths.
FragmentsKept ==
    /\ x # None
    /\ x.coverage = 2
    /\ resample = 0
    /\ Len(xdata) = 3

\* The paths of the records of a list.
Paths(fasts) == {fasts[k].path : k \in 1 .. Len(fasts)}

\* The calls of signal_at made on the record of the file at path q.
QueriesOf(q) == {k \in 1 .. Len(queried) : queried[k][1] = q}

\* The pruning has dropped the record of the file at path q.
Pruned(q) ==
    /\ pc \in {"pairs", "done", "rename", "finished", "exception"}
    /\ q \notin Paths(xs0) \cup Paths(ys0)

\* C19: the raw signal of a file is read at most once, however many calls
\* of signal_at are made on its record, and it is not read at all when the
\* record was pruned or no call was made on it.
C19_PayloadReadOnce ==
    \A q \in DOMAIN reads :
        /\ reads[q] <= 1
        /\ QueriesOf(q) = {} => reads[q] = 0
        /\ Pruned(q) => reads[q] = 0

C19_Witness ==
    /\ pc = "finished"
    /\ \E q \in DOMAIN reads : Pruned(q)
    /\ \E q \in DOMAIN reads : reads[q] = 1 /\ Cardinality(QueriesOf(q)) >= 2

\* C20: whatever calls were made before, signal_at(p, 0) returns the values
\* signal[o : o + lengths[p - start]] of the record's signal, o being the
\* sum of the lengths of the positions before p.
C20_SignalAtIsSlice ==
    queried # <<>> =>
        /\ raised = ""
        /\ xdata = Fragment(queried[Len(queried)][1], queried[Len(queried)][2])

C20_Witness ==
    /\ Len(queried) = 2
    /\ queried[1][2] > queried[2][2]
    /\ queried[2][2] >= disk[1].mapped_start + 1
    /\ disk[1].length[1] > 0
    /\ xdata # <<>>
    /\ xdata = Fragment(1, queried[2][2])

(***************************************************************************)
(* The modena entry point: Config.build, get_signal_by_read_id,            *)
(* get_squiggle and compare_position_pairs.  A squiggle is a triple        *)
(* (read id, a, b); an index maps a position to the squiggles in the order *)
(* the loop iterates them.  disk[f][read_id] is the raw signal of the read *)
(* in the blow5 file f, min_coverage stands for conf.coverage and resample *)
(* for args["resample"] before Config.build and conf.resample after it     *)
(* (NoPosition for None).                                                  *)
(***************************************************************************)
MaxIndexPos == 1    \* largest position of an index

\* np.median of an odd number of values.
np_median(a) == np_sort(a)[(Len(a) + 1) \div 2]

\* scipy.stats.median_abs_deviation of an odd number of values.
median_abs_deviation(a) ==
    The({np_median([k \in 1 .. Len(a) |-> Abs(a[k] - m)]) : m \in {np_median(a)}})

\* get_signal_by_read_id(f, read_id): the cache is keyed by the read id alone;
\* on a miss the read is fetched, centred on its median and scaled by its
\* median absolute deviation (the signals of InitModena scale exactly).
get_signal_by_read_id(f, read_id, st) ==
    IF st.cache[read_id] # None THEN [st EXCEPT !.ret = st.cache[read_id].signal]
    ELSE The({[st EXCEPT !.reads[f][read_id] = @ + 1,
                         !.cache[read_id] = [signal |-> norm],
                         !.ret = norm] :
              norm \in {The({[k \in 1 .. Len(disk[f][read_id]) |->
                                (disk[f][read_id][k] - np_median(disk[f][read_id]))
                                    \div scale] :
                             scale \in {median_abs_deviation(disk[f][read_id])}})}})

\* get_squiggle(conf, f, read_id, a, b) with n = conf.resample.  With size =
\* None np.random.choice returns one value, not an array (scalar); it raises
\* ValueError on an empty fragment.
get_squiggle(n, f, s, st) ==
    IF s[2] > s[3]
    THEN [st |-> [st EXCEPT !.raised = "AssertionError"], squig |-> <<>>,
          scalar |-> FALSE]
    ELSE The({
        The({IF signal = <<>>
             THEN [st |-> [s1 EXCEPT !.raised = "ValueError"], squig |-> <<>>,
                   scalar |-> FALSE]
             ELSE The({[st |-> [s1 EXCEPT !.rng = r.rng], squig |-> r.out,
                        scalar |-> n = NoPosition] :
                       r \in {IF n = NoPosition THEN choice(signal, 1, s1.rng)
                              ELSE choice(signal, n, s1.rng)}}) :
             signal \in {Slice(s1.ret, s[2], s[3])}}) :
        s1 \in {get_signal_by_read_id(f, s[1], st)}})

\* The loop "for squig in (get_squiggle(conf, f, *s) for s in sqs):
\* signals.extend(squig)" from the list acc on: list.extend raises TypeError
\* when squig is a scalar.  ret is the list the loop has built.
RECURSIVE extend_squiggles(_, _, _, _, _)
extend_squiggles(n, f, sqs, acc, st) ==
    IF sqs = <<>> THEN [st EXCEPT !.ret = acc]
    ELSE The({IF r.st.raised # "" THEN [r.st EXCEPT !.ret = acc]
              ELSE IF r.scalar THEN [r.st EXCEPT !.raised = "TypeError", !.ret = acc]
              ELSE extend_squiggles(n, f, Tail(sqs), acc \o r.squig, r.st) :
              r \in {get_squiggle(n, f, Head(sqs), st)}})

\* del idx[pos] when pos is in idx.
del_pos(idx, p) == [q \in DOMAIN idx \ {p} |-> idx[q]]

\* Config.build: a coverage below 1 and a negative resample size end the run,
\* a resample size of 0 becomes None.
ConfigBuild ==
    /\ pc = "build"
    /\ IF min_coverage <= 0 \/ resample < 0
       THEN pc' = "exit" /\ UNCHANGED resample
       ELSE /\ pc' = "compare"
            /\ resample' = IF resample = 0 THEN NoPosition ELSE resample
    /\ UNCHANGED <<pipeVars, ovVars, sumVars, outVars, indexVars>>
    /\ UNCHANGED <<disk, cache, reads, queried, rng, xdata, ydata, raised>>
    /\ UNCHANGED config

\* The generator compare_position_pairs is suspended at the yield of the
\* position it stands at: the position is not yet cleared from the indexes.
Suspended(yielded, p) == yielded # <<>> /\ yielded[Len(yielded)][1] = p

\* The loop of compare_position_pairs from the top of the iteration for
\* pos = p, up to its next yield (ret is the Result), its end (ret is None)
\* or the exception that ends it; x and y are signals_x and signals_y.
RECURSIVE compare_position_pairs_loop(_, _, _, _)
compare_position_pairs_loop(ix, iy, p, st) ==
    IF p > max_pos
    THEN [idx_x |-> ix, idx_y |-> iy, position |-> p, ret |-> None,
          x |-> <<>>, y |-> <<>>, st |-> st]
    ELSE IF \/ p \notin DOMAIN ix \/ p \notin DOMAIN iy
            \/ Len(ix[p]) < min_coverage
            \/ Len(iy[p]) < min_coverage
    THEN compare_position_pairs_loop(del_pos(ix, p), del_pos(iy, p), p + 1, st)
    ELSE The({The({
            [idx_x |-> ix, idx_y |-> iy, position |-> p,
             ret |-> IF sy.raised # "" THEN None
                     ELSE <<p, ks_2samp(np_sort(sx.ret), np_sort(sy.ret)),
                            Len(ix[p]) + Len(iy[p])>>,
             x |-> sx.ret, y |-> sy.ret, st |-> sy] :
            sy \in {IF sx.raised # "" THEN [sx EXCEPT !.ret = <<>>]
                    ELSE extend_squiggles(resample, "y", iy[p], <<>>, sx)}}) :
            sx \in {extend_squiggles(resample, "x", ix[p], <<>>, st)}})

\* next(results) on the generator compare_position_pairs: when it is
\* suspended at a yield it first clears the position it yielded.
compare_position_pairs_next(ix, iy, p, yielded, st) ==
    IF Suspended(yielded, p)
    THEN compare_position_pairs_loop(del_pos(ix, p), del_pos(iy, p), p + 1, st)
    ELSE compare_position_pairs_loop(ix, iy, p, st)

\* next(results) by a caller that takes the results as they are; stats0
\* holds the results yielded so far.
ComparePosition ==
    /\ pc = "compare"
    /\ \E r \in {compare_position_pairs_next(idx_x, idx_y, position, stats0,
                                             Effects(cache, reads, rng))} :
        /\ idx_x' = r.idx_x /\ idx_y' = r.idx_y /\ position' = r.position
        /\ cache' = r.st.cache /\ reads' = r.st.reads /\ rng' = r.st.rng
        /\ raised' = r.st.raised
        /\ xdata' = r.x /\ ydata' = r.y
        /\ stats0' = IF r.ret = None THEN stats0 ELSE Append(stats0, r.ret)
        /\ pc' = IF r.st.raised # "" THEN "exception"
                 ELSE IF r.ret = None THEN "compared"
                 ELSE "compare"
    /\ UNCHANGED <<pipeVars, ovVars, outVars>>
    /\ UNCHANGED <<stats, window, di, out, disk, queried, resample, max_pos>>
    /\ UNCHANGED config

\* The raw signal of a read: five values, a shuffled arithmetic progression.
RawOf(read_id) ==
    [j \in 1 .. 5 |->
        40 + read_id + (1 + (read_id % 3)) * ((j * (1 + (read_id % 4))) % 5)]

\* The squiggle of a read at a position.
SquiggleOf(read_id, p) ==
    <<read_id, (p + read_id) % 3, ((p + read_id) % 3) + 1 + (p % 2)>>

\* The squiggles of some reads at a position, by read id.
RECURSIVE SquigglesOf(_, _)
SquigglesOf(ids, p) ==
    IF ids = {} THEN <<>>
    ELSE LET r == CHOOSE r \in ids : \A q \in ids : r <= q
         IN  <<SquiggleOf(r, p)>> \o SquigglesOf(ids \ {r}, p)

\* The index of a dataset whose reads cover the positions as cover says.
IndexOf(cover) ==
    [p \in {q \in DOMAIN cover : cover[q] # {}} |-> SquigglesOf(cover[p], p)]

\* Two blow5 files with two reads and one read, whose id may be the id of a
\* read of the first file; indexes over the positions 0 .. MaxIndexPos, any
\* command line, np.random in one of a few states.
InitModena ==
    /\ pc = "build"
    /\ \E ry \in {1, 11} :
       \E cx \in [0 .. MaxIndexPos -> SUBSET {1, 2}],
          cy \in [0 .. MaxIndexPos -> SUBSET {ry}] :
          /\ idx_x = IndexOf(cx)
          /\ idx_y = IndexOf(cy)
          /\ disk = [f \in {"x", "y"} |->
                       IF f = "x" THEN [r \in {1, 2} |-> RawOf(r)]
                       ELSE [r \in {ry} |-> RawOf(11)]]
    /\ position = 0 /\ max_pos = MaxIndexPos
    /\ min_coverage \in 0 .. 2
    /\ resample \in -1 .. MaxResample
    /\ rng \in {np_random_seed(s) : s \in 0 .. MaxSeed}
    /\ cache = [r \in {1, 2, 11} |-> None]
    /\ reads = [f \in {"x", "y"} |-> [r \in DOMAIN disk[f] |-> 0]]
    /\ queried = <<>> /\ xdata = <<>> /\ ydata = <<>> /\ raised = ""
    /\ dataset1 = <<>> /\ dataset2 = <<>>
    /\ from_position = NoPosition /\ to_position = NoPosition
    /\ xs = <<>> /\ ys = <<>> /\ xs0 = <<>> /\ ys0 = <<>>
    /\ gx = concat_new(<<>>) /\ gy = concat_new(<<>>)
    /\ x = None /\ y = None
    /\ pairs = <<>> /\ signals = <<>>
    /\ rounds = 0 /\ prev = None
    /\ OvIdle /\ SumIdle /\ OutIdle
    /\ config = None

NextModena == ConfigBuild \/ ComparePosition

SpecModena == InitModena /\ [][NextModena]_vars

\* The whole fragments signal[a:b] of some squiggles of the file f, one after
\* the other.
Whole(f, sqs) ==
    Flatten([k \in 1 .. Len(sqs) |->
               Slice(get_signal_by_read_id(f, sqs[k][1],
                                           Effects(cache, reads, rng)).ret,
                     sqs[k][2], sqs[k][3])])

\* C18: in the modena entry point a resample size of 0 disables resampling:
\* Config.build accepts 0, and a position compare_position_pairs compares
\* then has as its two samples the whole fragments signal[a:b] of its
\* squiggles, unchanged and one after the other.
C18_ResampleZeroKeepsFragments ==
    [][/\ pc = "build" /\ resample = 0 /\ min_coverage >= 1 => pc' = "compare"
       /\ pc = "compare" /\ resample = NoPosition /\ pc' # "compared" =>
            /\ raised' = ""
            /\ xdata' = Whole("x", idx_x'[position'])
            /\ ydata' = Whole("y", idx_y'[position'])]_vars

(***************************************************************************)
(* The Fast5 of the signals variant: signal_at keeps a cursor (position)   *)
(* and the last index asked for (last_i) in the object.  cache[path] holds *)
(* the cached property signal and these two fields.                        *)
(***************************************************************************)
MaxSignalsPos == 5  \* positions of the record of the signals variant

\* The body of Fast5.signal of the signals variant: (signal, lengths).
signals_read_signal(file) ==
    LET cut == Slice(file.Signal, file.read_start_rel_to_raw, Len(file.Signal))
    IN  [signal |-> [k \in 1 .. Len(cut) |-> (cut[k] - file.shift) \div file.scale],
         lengths |-> file.length]

\* Fast5(path=path, start=start, end=start + size, last_i=start) of _parse_file.
signals_Fast5(start) == [signal |-> None, position |-> 0, last_i |-> start]

\* self.signal of the signals variant: the cached value, or the file is read.
signals_Fast5_signal(path, st) ==
    IF st.cache[path].signal # None THEN st
    ELSE [st EXCEPT !.cache[path].signal = signals_read_signal(disk[path]),
                    !.reads[path] = @ + 1]

\* f.signal_at(i) of the signals variant on the Fast5 f of the file at path,
\* for f.start <= i < f.end.
signals_signal_at(path, i0, st) ==
    The({
        LET signal == s1.cache[path].signal.signal
            length == s1.cache[path].signal.lengths
            i == i0 - disk[path].mapped_start
            size == Len(disk[path].length)
            f == s1.cache[path]
            caught == IF i > 2 /\ f.last_i < i
                      THEN f.position +
                           SumOf(Slice(length, f.last_i + 1, Min(i, size - 2)))
                      ELSE f.position
            after == IF 1 < i /\ i < size - 2 THEN caught + length[i + 1]
                     ELSE caught
        IN  [s1 EXCEPT !.ret = Slice(signal, caught, caught + length[i + 1]),
                       !.cache[path].position = after,
                       !.cache[path].last_i = i] :
        s1 \in {signals_Fast5_signal(path, st)}})

\* One record of the signals variant starting at a position at or after 0,
\* with fragments of one value or more, and no call made yet.
InitSignalsFast5 ==
    /\ pc = "signals_fast5"
    /\ PipeIdle /\ OvIdle /\ SumIdle /\ OutIdle /\ IndexIdle
    /\ \E n \in 1 .. MaxSignalsPos : \E lengths \in [1 .. n -> 1 .. MaxFragment] :
       \E start \in {0, MaxSignalsPos} :
            disk = [q \in {1} |-> FileWith(start, lengths, 1, FALSE)]
    /\ cache = [q \in DOMAIN disk |-> signals_Fast5(disk[q].mapped_start)]
    /\ reads = [q \in DOMAIN disk |-> 0]
    /\ queried = <<>>
    /\ rng = 0 /\ resample = 0
    /\ xdata = <<>> /\ ydata = <<>>
    /\ raised = ""
    /\ config = None

\* f.signal_at(p) for a position p of the record; xdata is what it returns.
SignalsCallSignalAt ==
    /\ pc = "signals_fast5"
    /\ Len(queried) < MaxCalls
    /\ \E p \in disk[1].mapped_start ..
                 disk[1].mapped_start + Len(disk[1].length) - 1 :
       \E e \in {signals_signal_at(1, p, Effects(cache, reads, rng))} :
            /\ cache' = e.cache /\ reads' = e.reads
            /\ xdata' = e.ret
            /\ queried' = Append(queried, <<1, p>>)
    /\ UNCHANGED <<pc, pipeVars, ovVars, sumVars, outVars, indexVars>>
    /\ UNCHANGED <<disk, rng, resample, ydata, raised>>
    /\ UNCHANGED config

NextSignalsFast5 == SignalsCallSignalAt

SpecSignalsFast5 == InitSignalsFast5 /\ [][NextSignalsFast5]_vars

\* C21: in the signals variant, whatever calls of signal_at were made on the
\* record before, the last call signal_at(p) returned the fragment of the
\* signal at offset sum(lengths[0 .. p - start)) of length lengths[p - start].
C21_SignalsSignalAtIsSlice ==
    pc = "signals_fast5" /\ queried # <<>> =>
        LET k == queried[Len(queried)][2] - disk[1].mapped_start
            sl == signals_read_signal(disk[1])
            offset == SumOf(SubSeq(sl.lengths, 1, k))
        IN  xdata = Slice(sl.signal, offset, offset + sl.lengths[k + 1])

\* The labels kmeans1d.cluster gave for the scores.
LabelsOf(scores, mapped) == (CHOOSE e \in mapped : e[1] = scores)[2]

\* The first line that holds the maximum score.
MaxLine(scores) ==
    CHOOSE m \in 1 .. Len(scores) :
        /\ \A j \in 1 .. Len(scores) : scores[j] <= scores[m]
        /\ \A j \in 1 .. Len(scores) : scores[j] = scores[m] => m <= j

\* C22: for a non-empty output file the labeler writes the same lines in the
\* same order, each extended by one label "pos" or "neg"; a line is "pos"
\* iff its cluster id is the cluster id of the line that holds the maximum
\* score, so that line is "pos".
C22_LabelsFollowMaximum ==
    [][pc = "done" /\ output_bed # None /\ output_bed.lines # <<>> =>
        LET lines == output_bed.lines
            scores == [k \in 1 .. Len(lines) |-> lines[k][3]]
            labels == LabelsOf(scores, kmeans')
            written == output_annotated'.lines
            m == MaxLine(scores)
        IN  /\ Len(written) = Len(lines)
            /\ \A k \in 1 .. Len(lines) :
                /\ Len(written[k]) = Len(lines[k]) + 1
                /\ SubSeq(written[k], 1, Len(lines[k])) = lines[k]
                /\ written[k][Len(written[k])] \in {"pos", "neg"}
                /\ written[k][Len(written[k])] = "pos" <=> labels[k] = labels[m]
            /\ written[m][Len(written[m])] = "pos"]_vars

\* The labeler has written a file with a line of each label.
C22_Witness ==
    /\ pc = "rename"
    /\ \E j, k \in 1 .. Len(output_annotated.lines) :
        /\ output_annotated.lines[j][4] = "pos"
        /\ output_annotated.lines[k][4] = "neg"

\* C23: when the result file holds no result line, the labeler clusters
\* nothing, raises nothing and leaves the file as it is, without labels.
C23_EmptyFileLeftAlone ==
    [][pc = "done" /\ output_bed # None /\ output_bed.lines = <<>> =>
        /\ pc' = "finished"
        /\ kmeans' = kmeans
        /\ raised' = raised
        /\ output_bed' = output_bed
        /\ output_annotated' = output_annotated]_vars

\* The labeler has returned from an empty result file.
C23_Witness ==
    pc = "finished" /\ output_bed # None /\ output_bed.lines = <<>>

\* C24: the gate of _concat on the size of the block loses nothing: with no
\* position bounds, a run of _concat to its end yields exactly the positions
\* that at least min_coverage records of the input list contain.
C24_BlockGateLosesNothing ==
    pc = "concat_done" /\ from_position = NoPosition /\ to_position = NoPosition =>
        {signals[k].position : k \in 1 .. Len(signals)} =
            {p \in 0 .. MaxPos : Coverage(xs0, p) >= min_coverage}

\* A finished run with min_coverage 2 that yielded a position, over a list
\* with a record no other record overlaps: the gate skipped its whole range.
C24_Witness ==
    /\ pc = "concat_done" /\ from_position = NoPosition
    /\ min_coverage = 2 /\ signals # <<>>
    /\ \E a \in 1 .. Len(xs0) :
        \A b \in 1 .. Len(xs0) : a # b => ~Overlaps(xs0[a], xs0[b])

\* C25: in _concat the slots of the records already processed, and only
\* they, are None; the cursor is at or after the end of each of them; the
\* block _concat_range works on holds no cleared slot; and after a run to
\* exhaustion every slot is None.
C25_SlotReclamationSafe ==
    pc \in {"concat", "concat_done"} /\ gx.state # "new" =>
        LET sorted == sort_start_end(xs0)
        IN  /\ Len(gx.fasts) = Len(xs0)
            /\ \A k \in 1 .. Len(gx.fasts) :
                /\ gx.fasts[k] = None <=> k <= gx.i
                /\ gx.fasts[k] # None => gx.fasts[k] = sorted[k]
                /\ gx.fasts[k] = None => sorted[k].end <= gx.start
            /\ gx.state = "range" =>
                /\ \A k \in 1 .. Len(gx.overlap) : gx.overlap[k] # None
                /\ \A k \in 1 .. gx.i : sorted[k].end <= gx.p
            /\ pc = "concat_done" =>
                \A k \in 1 .. Len(gx.fasts) : gx.fasts[k] = None

\* _concat is suspended in the range of a later record, the slots before it
\* cleared, after it has yielded a Signal.
C25_Witness ==
    /\ pc = "concat" /\ gx.state = "range"
    /\ gx.i >= 1 /\ gx.fasts[1] = None
    /\ signals # <<>>

(***************************************************************************)
(* One dataset read with position bounds: the range tests of               *)
(* Fast5.from_path, then _concat run to its end.  In this specification    *)
(* dataset1 is what Fast5._from_path yields, before the range tests.       *)
(***************************************************************************)
MaxBoundsPos == 4   \* positions of the records and largest bound
MaxBoundsRecs == 2  \* records under the path

\* The two range tests of Fast5.from_path on the records _from_path yields.
from_path_range(fasts, fp, tp) ==
    SelectSeq(fasts, LAMBDA f :
        /\ ~(fp # NoPosition /\ fp > f.end + 1)
        /\ ~(tp # NoPosition /\ tp < f.start + 1))

InitBounds ==
    /\ pc = "from_path"
    /\ IsRecList(dataset1, MaxBoundsRecs, MaxBoundsPos, 0)
    /\ dataset2 = <<>>
    /\ min_coverage \in 1 .. 2
    /\ from_position \in {NoPosition} \cup 1 .. MaxBoundsPos
    /\ to_position \in {NoPosition} \cup 1 .. MaxBoundsPos
    /\ from_position = NoPosition \/ to_position = NoPosition
         \/ from_position <= to_position
    /\ xs = <<>> /\ xs0 = <<>> /\ gx = concat_new(<<>>)
    /\ ys = <<>> /\ ys0 = <<>> /\ gy = concat_new(<<>>)
    /\ x = None /\ y = None
    /\ pairs = <<>> /\ signals = <<>>
    /\ rounds = 0 /\ prev = None
    /\ resample = 0
    /\ PayInit(dataset1, 0, {})
    /\ OvIdle /\ SumIdle /\ OutIdle /\ IndexIdle
    /\ config = None

\* Fast5.from_path: the list the dataset is built from, handed to _concat.
FromPath ==
    /\ pc = "from_path"
    /\ xs' = from_path_range(from_path(dataset1), from_position, to_position)
    /\ xs0' = xs'
    /\ gx' = concat_new(xs')
    /\ pc' = "concat"
    /\ UNCHANGED <<dataset1, dataset2, min_coverage, from_position, to_position,
                   ys, ys0, gy, x, y, pairs, signals, rounds, prev>>
    /\ UNCHANGED <<ovVars, sumVars, payVars, outVars, indexVars>>
    /\ UNCHANGED config

NextBounds == FromPath \/ ConcatNext

SpecBounds == InitBounds /\ [][NextBounds]_vars

\* Position p is within the configured bounds (1-based, as the output tests).
InBounds(p) ==
    /\ from_position = NoPosition \/ from_position <= p + 1
    /\ to_position = NoPosition \/ p + 1 <= to_position

\* The records of a list that contain position q.
Contributors(fasts, q) ==
    {fasts[k] : k \in {j \in 1 .. Len(fasts) : fasts[j].start <= q /\ q < fasts[j].end}}

\* C26: position bounds leave the windowed sums of the in-bounds positions
\* as they are: every position within WINDOW_SIZE // 2 of an in-bounds
\* position is aggregated from the same records as without bounds, and is
\* yielded iff it is yielded without bounds.
C26_BoundsKeepNeighbours ==
    pc = "concat_done" =>
        \A p \in 0 .. MaxBoundsPos - 1 : \A q \in 0 .. MaxBoundsPos - 1 :
            (InBounds(p) /\ Abs(p - q) <= WINDOW_SIZE \div 2) =>
                /\ Contributors(xs0, q) = Contributors(dataset1, q)
                /\ (\E k \in 1 .. Len(signals) : signals[k].position = q)
                     <=> Coverage(dataset1, q) >= min_coverage

(***************************************************************************)
(* Two seeded runs with resampling over the same first dataset and two     *)
(* second datasets.  What each call of signal_at returned in a run is      *)
(* recovered from the calls made, in order, and the seed.                  *)
(***************************************************************************)
\* What the calls of signal_at made so far have returned, call by call.
Returned ==
    signal_at_calls(queried, resample,
                    Effects([q \in DOMAIN disk |-> NotCached],
                            [q \in DOMAIN disk |-> 0],
                            np_random_seed(random_seed))).rets

\* The data the records of the first dataset gave the Signal of position p.
XSampleAt(p) ==
    LET ks == SelectSeq([k \in 1 .. Len(queried) |-> k],
                        LAMBDA k : /\ queried[k][2] = p
                                   /\ \E j \in 1 .. Len(dataset1) :
                                        dataset1[j].path = queried[k][1])
    IN  Flatten([j \in 1 .. Len(ks) |-> Returned[ks[j]]])

InitOther == InitSeeded /\ resample >= 1

\* The first run is over; the program is run again with the same seed on
\* the same first dataset and another second dataset.
RunOther ==
    /\ pc \in {"exit", "index_error", "exception", "finished"}
    /\ first = None
    /\ first' = [xsamples |-> [p \in {pairs[k][1].position : k \in 1 .. Len(pairs)}
                                 |-> XSampleAt(p)]]
    /\ pc' = "index"
    /\ IsRecList(dataset2', 2, MaxSeedPos, 10)
    /\ dataset2' # dataset2
    /\ disk' = DiskOf(dataset1 \o dataset2', {})
    /\ xs' = <<>> /\ ys' = <<>> /\ xs0' = <<>> /\ ys0' = <<>>
    /\ gx' = concat_new(<<>>) /\ gy' = concat_new(<<>>)
    /\ x' = None /\ y' = None
    /\ pairs' = <<>>
    /\ rounds' = 0
    /\ cache' = [q \in DOMAIN disk' |-> NotCached]
    /\ reads' = [q \in DOMAIN disk' |-> 0]
    /\ queried' = <<>>
    /\ rng' = np_random_seed(random_seed)
    /\ xdata' = <<>> /\ ydata' = <<>>
    /\ raised' = ""
    /\ stats0' = <<>> /\ window' = <<>> /\ out' = <<>>
    /\ output_bed' = None /\ output_annotated' = None
    /\ UNCHANGED <<dataset1, min_coverage, from_position, to_position, signals, prev>>
    /\ UNCHANGED <<ovVars, stats, di, resample>>
    /\ UNCHANGED <<no_distance_sum, random_seed, kmeans>>
    /\ UNCHANGED indexVars
    /\ UNCHANGED config

NextOther ==
    \/ IndexDatasets \/ SelectMetadata \/ OpenOutput
    \/ ConcatPairsBegin \/ ConcatPairsStep
    \/ ClusterOutput \/ RenameOutput
    \/ RunOther

SpecOther == InitOther /\ [][NextOther]_vars

\* concat_pairs is about to yield the pair (x, y).
JointlyEmitted ==
    /\ pc = "pairs" /\ x # None /\ y # None
    /\ x.position = y.position

\* C27: with resampling, the data the first dataset contributes at a jointly
\* emitted position is the same in a run with the same seed over the same
\* first dataset and another second dataset that shares the position.
C27_SampleIndependentOfOther ==
    first # None /\ JointlyEmitted /\ x.position \in DOMAIN first.xsamples =>
        xdata = first.xsamples[x.position]

\* The signal of a read as stored in the file f, centred and scaled.
Stored(f, read_id) ==
    get_signal_by_read_id(f, read_id,
                          Effects([r \in DOMAIN cache |-> None], reads, rng)).ret

\* C28: in modena, after any calls made for the two files,
\* get_signal_by_read_id(f, read_id) returns the signal of read_id as stored
\* in f, also when the read id occurs in both files.
C28_CacheKeepsDatasetsApart ==
    \A f \in {"x", "y"} :
        pc \in {"compare", "compared"} =>
            \A read_id \in DOMAIN disk[f] :
                get_signal_by_read_id(f, read_id,
                                      Effects(cache, reads, rng)).ret
                    = Stored(f, read_id)
\* The positions from p to max_pos that pass the filters of
\* compare_position_pairs: keys of both indexes, covered in both.
Qualifying(ix, iy, p) ==
    {q \in p .. max_pos :
        /\ q \in DOMAIN ix /\ q \in DOMAIN iy
        /\ Len(ix[q]) >= min_coverage /\ Len(iy[q]) >= min_coverage}

\* The position at which next(results) takes up the loop.
ResumeAt == IF Suspended(stats0, position) THEN position + 1 ELSE position

\* next(results) yields the least position not yet visited that passes the
\* filters, with the coverage of the two indexes there, and ends the stream
\* only when no such position is left.
YieldsLeast ==
    LET Q == Qualifying(idx_x, idx_y, ResumeAt)
    IN  IF Q = {}
        THEN pc' = "compared" /\ stats0' = stats0
        ELSE LET q == CHOOSE m \in Q : \A n \in Q : m <= n
             IN  /\ pc' = "compare"
                 /\ Len(stats0') = Len(stats0) + 1
                 /\ SubSeq(stats0', 1, Len(stats0)) = stats0
                 /\ stats0'[Len(stats0')][1] = q
                 /\ stats0'[Len(stats0')][3] = Len(idx_x[q]) + Len(idx_y[q])

\* C29: compare_position_pairs yields, in strictly ascending position order,
\* exactly the positions of [min_pos, max_pos] that are keys of both indexes
\* and covered in both, each with the coverage len(idx_x[pos]) +
\* len(idx_y[pos]) it had before it was cleared.
C29_YieldsCoveredPositionsInOrder == [][pc = "compare" => YieldsLeast]_vars

\* The same property of the runs that resample (resample size at least 1).
C29_Resampled ==
    [][pc = "compare" /\ resample # NoPosition => YieldsLeast]_vars

(***************************************************************************)
(* The run of modena from the two indexes to its sanity check: the         *)
(* overlap of the two position ranges, trim_index, and distance_summing    *)
(* pulling the results of compare_position_pairs one next() at a time;     *)
(* out holds the results printed so far.                                   *)
(***************************************************************************)
MaxRunIndexPos == 5

\* trim_index that deletes only the keys below min_pos.
trim_index_below(idx, lo, hi) ==
    [p \in {q \in DOMAIN idx : ~(q < lo)} |-> idx[p]]

\* trim_index: delete every key outside [min_pos, max_pos].
trim_index(idx, lo, hi) ==
    [p \in {q \in DOMAIN idx : ~(q < lo \/ q > hi)} |-> idx[p]]

MinOf(S) == CHOOSE m \in S : \A n \in S : m <= n
MaxOf(S) == CHOOSE m \in S : \A n \in S : m >= n

\* The positions a read aligned to lo .. hi has a squiggle at.
ReadCovers(range, p) == range[1] <= p /\ p <= range[2]

\* Two indexed datasets: the first with read 1 and perhaps read 2, the
\* second with read 11, each read aligned to a range of positions of
\* 0 .. MaxRunIndexPos; resampling on (size 1) or off.
InitModenaRun ==
    /\ pc = "run"
    /\ \E r1 \in {<<a, b>> : a \in 0 .. MaxRunIndexPos, b \in 0 .. MaxRunIndexPos},
          r2 \in {<<a, MaxRunIndexPos>> : a \in 0 .. MaxRunIndexPos + 1},
          r11 \in {<<a, b>> : a \in 0 .. MaxRunIndexPos, b \in 0 .. MaxRunIndexPos} :
          /\ r1[1] <= r1[2] /\ r11[1] <= r11[2]
          /\ idx_x = IndexOf([q \in 0 .. MaxRunIndexPos |->
                        {r \in {1, 2} : ReadCovers(IF r = 1 THEN r1 ELSE r2, q)}])
          /\ idx_y = IndexOf([q \in 0 .. MaxRunIndexPos |->
                        {r \in {11} : ReadCovers(r11, q)}])
    /\ disk = [f \in {"x", "y"} |->
                 IF f = "x" THEN [r \in {1, 2} |-> RawOf(r)]
                 ELSE [r \in {11} |-> RawOf(11)]]
    /\ position = 0 /\ max_pos = 0
    /\ min_coverage \in 1 .. 2
    /\ resample \in {NoPosition, 1}
    /\ rng = np_random_seed(0)
    /\ cache = [r \in {1, 2, 11} |-> None]
    /\ reads = [f \in {"x", "y"} |-> [r \in DOMAIN disk[f] |-> 0]]
    /\ queried = <<>> /\ xdata = <<>> /\ ydata = <<>> /\ raised = ""
    /\ dataset1 = <<>> /\ dataset2 = <<>>
    /\ from_position = NoPosition /\ to_position = NoPosition
    /\ xs = <<>> /\ ys = <<>> /\ xs0 = <<>> /\ ys0 = <<>>
    /\ gx = concat_new(<<>>) /\ gy = concat_new(<<>>)
    /\ x = None /\ y = None
    /\ pairs = <<>> /\ signals = <<>>
    /\ rounds = 0 /\ prev = None
    /\ OvIdle /\ SumIdle /\ OutIdle
    /\ config = None

\* run up to the creation of the two generators: min_pos (kept in position,
\* where the loop of compare_position_pairs starts), max_pos, trim_index of
\* both indexes.
ModenaTrim ==
    /\ pc = "run"
    /\ \E lo \in {MaxOf({MinOf(DOMAIN idx_x), MinOf(DOMAIN idx_y)})},
          hi \in {MinOf({MaxOf(DOMAIN idx_x), MaxOf(DOMAIN idx_y)})} :
        /\ position' = lo
        /\ max_pos' = hi
        /\ idx_x' = trim_index(idx_x, lo, hi)
        /\ idx_y' = trim_index(idx_y, lo, hi)
    /\ window' = <<>> /\ di' = 0
    /\ pc' = "modena_populate"
    /\ UNCHANGED <<stats, stats0, out, pipeVars, ovVars, payVars, outVars>>
    /\ UNCHANGED config

\* One round of the loop that populates the window: stat = next(stats, None);
\* after window_size rounds, the test of the empty window.
ModenaPopulate ==
    /\ pc = "modena_populate"
    /\ IF di < WINDOW_SIZE
       THEN \E r \in {compare_position_pairs_next(idx_x, idx_y, position, stats0,
                                                  Effects(cache, reads, rng))} :
            /\ idx_x' = r.idx_x /\ idx_y' = r.idx_y /\ position' = r.position
            /\ cache' = r.st.cache /\ reads' = r.st.reads /\ rng' = r.st.rng
            /\ raised' = r.st.raised
            /\ xdata' = r.x /\ ydata' = r.y
            /\ stats0' = IF r.ret = None THEN stats0 ELSE Append(stats0, r.ret)
            /\ window' = IF r.ret = None THEN window
                         ELSE deque_append(window, r.ret)
            /\ di' = di + 1
            /\ pc' = IF r.st.raised # "" THEN "exception" ELSE "modena_populate"
       ELSE /\ pc' = IF window = <<>> THEN "sum_done" ELSE "modena_prefix"
            /\ di' = 0
            /\ UNCHANGED <<idx_x, idx_y, position, cache, reads, rng, raised,
                           xdata, ydata, stats0, window>>
    /\ UNCHANGED <<pipeVars, ovVars, outVars>>
    /\ UNCHANGED <<stats, out, disk, queried, resample, max_pos>>
    /\ UNCHANGED config

\* One round of for stat in stats: the next result is pulled, the centre of
\* the window is yielded and printed, the window moves on.
ModenaStream ==
    /\ pc = "modena_stream"
    /\ \E r \in {compare_position_pairs_next(idx_x, idx_y, position, stats0,
                                             Effects(cache, reads, rng))} :
        /\ idx_x' = r.idx_x /\ idx_y' = r.idx_y /\ position' = r.position
        /\ cache' = r.st.cache /\ reads' = r.st.reads /\ rng' = r.st.rng
        /\ raised' = r.st.raised
        /\ xdata' = r.x /\ ydata' = r.y
        /\ IF r.st.raised # ""
           THEN /\ pc' = "exception"
                /\ UNCHANGED <<stats0, window, out, di>>
           ELSE IF r.ret = None
           THEN /\ pc' = "modena_suffix"
                /\ di' = WINDOW_SIZE \div 2
                /\ UNCHANGED <<stats0, window, out>>
           ELSE /\ stats0' = Append(stats0, r.ret)
                /\ IF distsum_assert(window, WINDOW_SIZE \div 2)
                   THEN /\ out' = Append(out, distance_summing_at(window, WINDOW_SIZE \div 2))
                        /\ window' = deque_append(Tail(window), r.ret)
                        /\ pc' = "modena_stream"
                   ELSE /\ pc' = "sum_error"
                        /\ UNCHANGED <<out, window>>
                /\ di' = di
    /\ UNCHANGED <<pipeVars, ovVars, outVars>>
    /\ UNCHANGED <<stats, disk, queried, resample, max_pos>>
    /\ UNCHANGED config

\* The sanity check of run: assert len(idx_x) == 0; assert len(idx_y) == 0.
ModenaSanityCheck ==
    /\ pc = "sum_done"
    /\ IF DOMAIN idx_x = {} /\ DOMAIN idx_y = {}
       THEN pc' = "cluster_output" /\ raised' = raised
       ELSE pc' = "exception" /\ raised' = "AssertionError"
    /\ UNCHANGED <<pipeVars, ovVars, sumVars, outVars, indexVars>>
    /\ UNCHANGED <<disk, cache, reads, queried, rng, resample, xdata, ydata>>
    /\ UNCHANGED config

NextModenaRun ==
    \/ ModenaTrim
    \/ ModenaPopulate
    \/ DistanceSummingPrefix
    \/ ModenaStream
    \/ DistanceSummingSuffix
    \/ ModenaSanityCheck

SpecModenaRun == InitModenaRun /\ [][NextModenaRun]_vars

\* C30: whenever run reaches its sanity check both indexes are empty:
\* trim_index leaves no key outside [min_pos, max_pos], every position the
\* loop of compare_position_pairs has left behind is deleted from both
\* indexes, emitted or not, and distance_summing ends only when the result
\* stream is drained.
C30_IndexesEmptyAtSanityCheck ==
    /\ pc # "run" =>
          \A q \in DOMAIN idx_x \cup DOMAIN idx_y : position <= q /\ q <= max_pos
    /\ pc = "sum_done" =>
          /\ position > max_pos
          /\ DOMAIN idx_x = {} /\ DOMAIN idx_y = {}

\* The sanity check is reached after a run that printed results and skipped
\* a position between two of them.
C30_Witness ==
    /\ pc = "sum_done"
    /\ Len(out) >= WINDOW_SIZE
    /\ \E k \in 1 .. Len(stats0) - 1 : stats0[k + 1][1] > stats0[k][1] + 1

(***************************************************************************)
(* _index_datasets with the acid, strand and chromosome filters of         *)
(* Fast5.from_path.  In this specification dataset1 and dataset2 are what  *)
(* Fast5._from_path yields, before any filter; a chromosome name and a     *)
(* regular expression are lists of characters.                             *)
(***************************************************************************)
MaxMetaRecs == 2

\* config.strand is None.
NoStrand == "None"

\* re.compile of a text of literal characters, '.', a leading '^' and a
\* trailing '$': '.' stands for any character, the anchors for the two ends.
re_compile(text) ==
    LET from_start == text # <<>> /\ Head(text) = "^"
        rest == IF from_start THEN Tail(text) ELSE text
        to_end == rest # <<>> /\ rest[Len(rest)] = "$"
    IN  [from_start |-> from_start, to_end |-> to_end,
         atoms |-> IF to_end THEN SubSeq(rest, 1, Len(rest) - 1) ELSE rest]

\* The atoms of a pattern match s from offset k on.
re_match_at(pattern, s, k) ==
    /\ k + Len(pattern.atoms) <= Len(s)
    /\ \A j \in 1 .. Len(pattern.atoms) :
          pattern.atoms[j] = "." \/ pattern.atoms[j] = s[k + j]

\* pattern.search(s) is not None.
re_search(pattern, s) ==
    \E k \in 0 .. Len(s) :
        /\ re_match_at(pattern, s, k)
        /\ pattern.from_start => k = 0
        /\ pattern.to_end => k + Len(pattern.atoms) = Len(s)

\* The tests of Fast5.from_path against the configuration.
from_path_desired(f, cfg, fp, tp) ==
    /\ ~(cfg.acid # "autodetect" /\ cfg.acid # f.acid)
    /\ ~(cfg.strand # NoStrand /\ cfg.strand # f.strand)
    /\ ~(cfg.chromosome # None /\ ~re_search(cfg.chromosome, f.chromosome))
    /\ ~(fp # NoPosition /\ fp > f.end + 1)
    /\ ~(tp # NoPosition /\ tp < f.start + 1)

\* The loop of Fast5.from_path over the records _from_path yields: acc is
\* what it has yielded, selected the record that set acid_selected,
\* chromosome_selected and strand_selected (all three are None until the
\* first record passes the tests, and that record sets all three).
RECURSIVE from_path_loop(_, _, _, _, _, _)
from_path_loop(fasts, cfg, fp, tp, selected, acc) ==
    IF fasts = <<>> THEN acc
    ELSE LET f == Head(fasts)
         IN  IF ~from_path_desired(f, cfg, fp, tp)
             THEN from_path_loop(Tail(fasts), cfg, fp, tp, selected, acc)
             ELSE IF selected = None
             THEN from_path_loop(Tail(fasts), cfg, fp, tp, f, Append(acc, f))
             ELSE IF \/ selected.acid # f.acid
                     \/ selected.chromosome # f.chromosome
                     \/ selected.strand # f.strand
             THEN from_path_loop(Tail(fasts), cfg, fp, tp, selected, acc)
             ELSE from_path_loop(Tail(fasts), cfg, fp, tp, selected, Append(acc, f))

\* Fast5.from_path(path, config) over the records under the path.
from_path_config(listing, cfg) ==
    from_path_loop(from_path(listing), cfg, from_position, to_position, None, <<>>)

\* config.acid, config.chromosome and config.strand inferred from xs[0].
config_inferred(cfg, f) ==
    [cfg EXCEPT !.acid = f.acid,
                !.chromosome = re_compile(<<"^">> \o f.chromosome \o <<"$">>),
                !.strand = f.strand]

\* The metadata of at most n records, each of some
\* acid, strand and chromosome, all over the positions [0, 1).
MetaRecLists(n) ==
    UNION {[1 .. len -> [acid : {"dna", "rna"}, strand : {"+", "-"},
                         chromosome : {<<"c", ".">>, <<"c", "1">>}]] :
           len \in 0 .. n}

MetaRecs(m, base) ==
    [k \in 1 .. Len(m) |->
        [path |-> base + k, acid |-> m[k].acid, strand |-> m[k].strand,
         chromosome |-> m[k].chromosome, start |-> 0, end |-> 1]]

InitMeta ==
    /\ pc = "index_xs"
    /\ \E m1 \in MetaRecLists(MaxMetaRecs), m2 \in MetaRecLists(MaxMetaRecs) :
          /\ dataset1 = MetaRecs(m1, 0)
          /\ dataset2 = MetaRecs(m2, 10)
    /\ config \in [acid : {"autodetect", "dna", "rna"},
                   strand : {NoStrand, "+"},
                   chromosome : {None, re_compile(<<"c">>)}]
    /\ min_coverage = 1
    /\ from_position = NoPosition /\ to_position = NoPosition
    /\ xs = <<>> /\ ys = <<>> /\ xs0 = <<>> /\ ys0 = <<>>
    /\ gx = concat_new(<<>>) /\ gy = concat_new(<<>>)
    /\ x = None /\ y = None
    /\ pairs = <<>> /\ signals = <<>>
    /\ rounds = 0 /\ prev = None
    /\ OvIdle /\ SumIdle /\ PayIdle /\ OutIdle /\ IndexIdle

\* _index_datasets up to the copy of the configuration: xs is the sorted
\* list of all that Fast5.from_path yields for the first dataset.
IndexXs ==
    /\ pc = "index_xs"
    /\ xs' = sorted_start_negend(from_path_config(dataset1, config))
    /\ IF xs' = <<>>
       THEN pc' = "exit" /\ config' = config
       ELSE pc' = "index_ys" /\ config' = config_inferred(config, xs'[1])
    /\ UNCHANGED <<dataset1, dataset2, min_coverage, from_position, to_position,
                   ys, xs0, ys0, gx, gy, x, y, pairs, signals, rounds, prev>>
    /\ UNCHANGED <<ovVars, sumVars, payVars, outVars, indexVars>>

\* The rest of _index_datasets: the second dataset read with the inferred
\* configuration, its overlapping records kept, and the second pass.
IndexYs ==
    /\ pc = "index_ys"
    /\ \E kept \in {keep_overlapping(from_path_config(dataset2, config), xs)} :
        IF kept = <<>>
        THEN pc' = "exit" /\ ys' = kept /\ xs' = xs
        ELSE /\ ys' = sorted_start_negend(kept)
             /\ xs' = keep_overlapping(xs, ys')
             /\ pc' = "indexed"
    /\ rounds' = rounds + 1
    /\ UNCHANGED <<dataset1, dataset2, min_coverage, from_position, to_position,
                   xs0, ys0, gx, gy, x, y, pairs, signals, prev>>
    /\ UNCHANGED <<ovVars, sumVars, payVars, outVars, indexVars>>
    /\ UNCHANGED config

NextMeta == IndexXs \/ IndexYs

SpecMeta == InitMeta /\ [][NextMeta]_vars

\* The acid, chromosome and strand of a record.
Metadata(f) == <<f.acid, f.chromosome, f.strand>>

\* All records of a list have the same acid, chromosome and strand.
SameMetadata(fasts) ==
    \A j \in 1 .. Len(fasts), k \in 1 .. Len(fasts) :
        Metadata(fasts[j]) = Metadata(fasts[k])

\* C31: all records one call of Fast5.from_path yields share their acid,
\* chromosome and strand, and every record _index_datasets keeps in ys has
\* the acid, chromosome and strand of xs[0].
C31_OneAcidChromosomeStrand ==
    /\ pc = "index_ys" => SameMetadata(xs)
    /\ pc \in {"index_ys", "indexed"} =>
          SameMetadata(from_path_config(dataset2, config))
    /\ pc = "indexed" /\ xs # <<>> =>
          \A k \in 1 .. Len(ys) : Metadata(ys[k]) = Metadata(xs[1])

\* The part of C31 about one call of Fast5.from_path.
C31_FromPathShares ==
    /\ pc = "index_ys" => SameMetadata(xs)
    /\ pc \in {"index_ys", "indexed"} =>
          SameMetadata(from_path_config(dataset2, config))

\* C32: whenever _index_datasets returns rather than exits, both returned
\* lists are non-empty, so that xs[0] exists: the second pass never removes
\* every record of the first dataset while ys is non-empty.
C32_BothListsNonEmpty ==
    pc = "indexed" => xs # <<>> /\ ys # <<>>

\* _index_datasets has returned after its second pass removed a record of
\* the first dataset and kept another.
C32_Witness ==
    /\ pc = "indexed" /\ rounds = 1
    /\ xs # <<>> /\ Len(xs) < Len(dataset1)
    /\ ys # <<>>

(***************************************************************************)
(* Termination of compare_datasets.  The program is sequential: the        *)
(* interpreter takes the next step of the run whenever there is one.  That *)
(* is weak fairness of NextRun, WF_vars(NextRun), written out with the     *)
(* enabling condition of NextRun, which is that the run has not ended:     *)
(* either the run is ended infinitely often or it takes infinitely many    *)
(* steps.                                                                  *)
(***************************************************************************)
SpecRunFair == SpecRun /\ ([]<>Over \/ []<><<NextRun>>_vars)

\* An iteration of the loop of concat_pairs yields or advances a stream, and
\* the loop ends, pulling neither generator, once a stream is exhausted.
PairsAdvance ==
    pc = "pairs" =>
        IF x = None \/ y = None
        THEN gx' = gx /\ gy' = gy /\ pc' # "pairs"
        ELSE \/ gx' # gx \/ gy' # gy
             \/ pc' = "exception"

\* The cursor of _concat never moves back and never leaves its list.
OnePass(g, h) == g.i <= h.i /\ h.i <= Len(h.fasts)

\* Both generators of concat_pairs make one pass.
ConcatOnePass ==
    pc \in {"concat_pairs", "pairs"} => OnePass(gx, gx') /\ OnePass(gy, gy')

\* C33: over finite record lists the pipeline always terminates: _concat
\* makes one pass over its list, every iteration of the loop of concat_pairs
\* yields or advances a stream and the loop stops as soon as either stream
\* is exhausted, without draining the other, and the smoother stops after
\* its suffix.
C33_PipelineTerminates ==
    /\ <>Over
    /\ [][PairsAdvance]_vars
    /\ [][ConcatOnePass]_vars

\* The run has ended after concat_pairs yielded a pair and stopped at the
\* end of the first stream with the second one not exhausted.
C33_Witness ==
    /\ pc = "finished"
    /\ pairs # <<>>
    /\ x = None /\ y # None

(***************************************************************************)
(* The labeler one write at a time: _cluster_output of nodclust and        *)
(* cluster_output of modena, whose file starts with a header line that the *)
(* labeler skips and writes anew.  output_bed is the file at the final     *)
(* path, output_annotated the file at the in-progress path.  Any step of   *)
(* the labeler may fail: kmeans1d.cluster, a write, the rename.            *)
(***************************************************************************)
MaxLabelLines == 3

\* print_header of modena.
print_header == <<"pos", "cov", "dist", "label">>

\* The file a labeler has just opened at the in-progress path: empty for
\* nodclust, the header for modena.
labeler_opened(file) ==
    IF "header" \in DOMAIN file
    THEN [header |-> print_header, lines |-> <<>>]
    ELSE [lines |-> <<>>]

\* A result file of nodclust or of modena with the result lines given by
\* their scores.
ResultFile(variant, scores) ==
    LET lines == [k \in 1 .. Len(scores) |-> <<k, k + 1, scores[k]>>]
    IN  IF variant = "modena"
        THEN [header |-> print_header, lines |-> lines]
        ELSE [lines |-> lines]

InitLabeler ==
    /\ pc = "done"
    /\ \E variant \in {"nodclust", "modena"}, len \in 0 .. MaxLabelLines :
       \E scores \in [1 .. len -> 0 .. 1] :
          output_bed = ResultFile(variant, scores)
    /\ output_annotated = None
    /\ kmeans = {} /\ first = None
    /\ no_distance_sum = TRUE /\ random_seed = 0
    /\ PipeIdle /\ OvIdle /\ SumIdle /\ PayIdle /\ IndexIdle
    /\ config = None

\* The labeler up to the opening of the in-progress file: the result lines
\* are read, an empty file ends the labeler, kmeans1d.cluster gives the
\* labels, the in-progress file is opened.
LabelerOpen ==
    /\ pc = "done"
    /\ IF output_bed.lines = <<>>
       THEN /\ pc' = "finished"
            /\ UNCHANGED <<output_annotated, kmeans>>
       ELSE LET lines == output_bed.lines
                scores == [k \in 1 .. Len(lines) |-> lines[k][3]]
            IN  \E labels \in [1 .. Len(lines) -> {0, 1}] :
                    /\ \A e \in kmeans : e[1] = scores => e[2] = labels
                    /\ kmeans' = kmeans \cup {<<scores, labels>>}
                    /\ output_annotated' = labeler_opened(output_bed)
                    /\ pc' = "labeling"
    /\ UNCHANGED <<pipeVars, ovVars, sumVars, payVars, indexVars, config>>
    /\ UNCHANGED <<no_distance_sum, random_seed, output_bed, first>>

\* As LabelerWrite, with the label written to the file at the final path.
LabelerWriteInPlace ==
    /\ pc = "labeling"
    /\ LET lines == output_bed.lines
           scores == [k \in 1 .. Len(lines) |-> lines[k][3]]
           labeled == label_lines(lines, LabelsOf(scores, kmeans))
           n == Len(output_annotated.lines)
       IN  IF n < Len(lines)
           THEN /\ output_bed' = [output_bed EXCEPT !.lines[n + 1] = labeled[n + 1]]
                /\ output_annotated' =
                       [output_annotated EXCEPT !.lines = Append(@, labeled[n + 1])]
                /\ pc' = "labeling"
           ELSE /\ pc' = "rename"
                /\ UNCHANGED <<output_bed, output_annotated>>
    /\ UNCHANGED <<pipeVars, ovVars, sumVars, payVars, indexVars, config>>
    /\ UNCHANGED <<no_distance_sum, random_seed, kmeans, first>>

\* One round of the loop over zip(lines, labels): the line with its label
\* is written to the in-progress file; after the last one the file is
\* closed.
LabelerWrite ==
    /\ pc = "labeling"
    /\ LET lines == output_bed.lines
           scores == [k \in 1 .. Len(lines) |-> lines[k][3]]
           labeled == label_lines(lines, LabelsOf(scores, kmeans))
           n == Len(output_annotated.lines)
       IN  IF n < Len(lines)
           THEN /\ output_annotated' =
                       [output_annotated EXCEPT !.lines = Append(@, labeled[n + 1])]
                /\ pc' = "labeling"
           ELSE /\ pc' = "rename"
                /\ UNCHANGED output_annotated
    /\ UNCHANGED <<pipeVars, ovVars, sumVars, payVars, indexVars, config>>
    /\ UNCHANGED <<no_distance_sum, random_seed, output_bed, kmeans, first>>

\* A call of the labeler raises: kmeans1d.cluster, open or write on the
\* in-progress path, os.rename (which replaces the file or does nothing).
LabelerRaise ==
    /\ pc \in {"done", "labeling", "rename"}
    /\ pc = "done" => output_bed.lines # <<>>
    /\ raised' = "Exception"
    /\ pc' = "exception"
    /\ UNCHANGED <<pipeVars, ovVars, sumVars, outVars, indexVars, config>>
    /\ UNCHANGED <<disk, cache, reads, queried, rng, resample, xdata, ydata>>

NextLabeler == LabelerOpen \/ LabelerWrite \/ LabelerRaise \/ RenameOutput

SpecLabeler == InitLabeler /\ [][NextLabeler]_vars

\* File b is the complete labeled file of the unlabeled file a: the lines
\* of a, in their order, each with one label.
CompleteLabeled(a, b) ==
    /\ DOMAIN b = DOMAIN a
    /\ "header" \in DOMAIN a => b.header = a.header
    /\ Len(b.lines) = Len(a.lines)
    /\ \A k \in 1 .. Len(a.lines) :
          \E l \in {"pos", "neg"} : b.lines[k] = Append(a.lines[k], l)

\* A step leaves the file at the final path as it is, or it is the rename
\* and puts the complete labeled file there.
FinalPathWholeStep ==
    \/ output_bed' = output_bed
    \/ /\ pc = "rename" /\ pc' = "finished"
       /\ CompleteLabeled(output_bed, output_bed')

\* C34: while the labeler runs the final path holds the complete unlabeled
\* file or the complete labeled file, never a partly labeled one: the labels
\* go to the in-progress path, one rename puts the labeled file at the final
\* path after all lines are written, and a failure before the rename leaves
\* the unlabeled file as it was.
C34_FinalPathNeverPartial ==
    /\ [][FinalPathWholeStep]_vars
    /\ [](pc \in {"done", "labeling", "rename", "exception"} =>
            \A k \in 1 .. Len(output_bed.lines) : Len(output_bed.lines[k]) = 3)
    /\ [](pc = "rename" => CompleteLabeled(output_bed, output_annotated))

\* The labeler failed after it had written a part of the lines to the
\* in-progress path.
C34_Witness ==
    /\ pc = "exception"
    /\ output_annotated # None
    /\ Len(output_annotated.lines) >= 1
    /\ Len(output_annotated.lines) < Len(output_bed.lines)

====
